---- MODULE Spec2Model ----
(***************************************************************************)
(* Model of the backtest engine of forex-backtest-app:                     *)
(*   src/src/analysis/backtest.py   backtest_trade                         *)
(*   src/src/data/database.py       get_candle_at_time,                     *)
(*                                  get_subsequent_candles,                 *)
(*                                  insert_trading_entry                    *)
(*   src/src/utils/time_utils.py    combine_date_and_time, format_*         *)
(*                                                                         *)
(* Time is counted in M15 slots (one slot = 15 minutes); a timestamp is    *)
(* the number of slots since 00:00 of day 0.  Prices are integers in       *)
(* units of one pip of the symbol.                                         *)
(***************************************************************************)
EXTENDS Integers, Sequences, FiniteSets, TLC

(* ------------------------------ bounds --------------------------------- *)
\* Number of consecutive M15 slots the candle table may hold a candle for.
NumSlots == 3
\* Longest stop-loss list and longest ratio list of an entry.
MaxGrid == 2
\* Largest number of database calls that fail during one backtest_trade.
MaxFaults == 1
\* Largest number of rows that direct callers put into trading_entries.
MaxStored == 2
\* Longest outcome list given to summarize_backtest_results.
MaxOutcomes == 3
\* Longest outcome list given to calculate_drawdown and generate_equity_curve.
MaxTrades == 4
\* Longest entry list given to batch_backtest.
MaxBatch == 2

(* ------------------------- program constants --------------------------- *)
\* 24 hours of 15-minute candles ('M15', the reference timeframe).
SlotsPerDay == 96
\* currency_ratios[symbol]: the price of one pip, here one price unit.
ratiopips == 1
\* config['trading']['stoploss_sizes'] and ['trade_ratios'], scaled down.
ConfigStoplossSizes == <<1>>
ConfigTradeRatios == <<2, 1>>

\* First slot of the window: the last slot of day 0, so the window crosses
\* midnight and the day part of a timestamp matters.
FirstSlot == SlotsPerDay - 1
Slots == FirstSlot .. (FirstSlot + NumSlots - 1)
BasePrice == 10 * ratiopips
SizeVals == {0, 1}
RatioVals == {1, 2}
\* Distances, in pips, between a candle's open and its high or its low.
Moves == {0, 1}

\* Python's None for a datetime, and the 'N/A' text of an inconclusive row.
NoneTime == -1
NA == -1

(* ------------------------------ helpers -------------------------------- *)
\* The lists of at most n elements of S without two equal neighbours.
ListsUpTo(S, n) ==
    {l \in UNION {[1..m -> S] : m \in 0..n} : \A x \in 1..(Len(l) - 1) : l[x] # l[x + 1]}

\* round(x, 1) of x = n/d hours, in tenths of an hour; Python rounds an
\* exactly representable half to the even neighbour.
RoundTenths(n, d) ==
    LET q == (10 * n) \div d
        r == (10 * n) % d
    IN  IF 2 * r < d THEN q
        ELSE IF 2 * r > d THEN q + 1
        ELSE IF q % 2 = 0 THEN q ELSE q + 1

(* --------------------------- time_utils.py ----------------------------- *)
\* A text is well formed (wf) or not; a well-formed day text denotes a day
\* number, a well-formed time text a slot of the day.
combine_date_and_time(date_str, time_str) ==
    IF date_str.wf /\ time_str.wf
    THEN date_str.v * SlotsPerDay + time_str.v
    ELSE NoneTime

\* strftime('%d/%m/%y') and strftime('%H:%M'): the day part and the
\* time-of-day part of a timestamp.
format_display_date(dt) == dt \div SlotsPerDay
format_display_time(dt) == dt % SlotsPerDay

\* strftime('%Y-%m-%d %H:%M:%S') / strftime('%Y-%m-%d %H:%M'): a text
\* made of the date followed by the time of day.
format_datetime_for_db(dt) == <<dt \div SlotsPerDay, dt % SlotsPerDay>>

\* datetime.strptime(text, '%Y-%m-%d %H:%M:%S')
strptime(text) == text[1] * SlotsPerDay + text[2]

\* Minutes of a slot and of a day; a clock time is a minute of the day.
MinutesPerSlot == 15
MinutesPerDay == SlotsPerDay * MinutesPerSlot

\* datetime.time(): the clock time of a timestamp.
time_only(dt) == (dt % SlotsPerDay) * MinutesPerSlot

\* datetime.strptime('HH:00', '%H:%M').time()
OClock(h) == h * 60

\* The classification with New York ending at 04:00.
get_session_for_time_early_close(time_obj) ==
    IF OClock(15) <= time_obj /\ time_obj < OClock(20) THEN "London"
    ELSE IF OClock(5) <= time_obj /\ time_obj < OClock(15) THEN "Tokyo"
    ELSE IF OClock(20) <= time_obj \/ time_obj < OClock(4) THEN "New York"
    ELSE "Unknown"

\* get_session_for_time of a clock time: London is tested first, then
\* Tokyo, then New York, whose window wraps around midnight.
get_session_for_time(time_obj) ==
    IF OClock(15) <= time_obj /\ time_obj < OClock(20) THEN "London"
    ELSE IF OClock(5) <= time_obj /\ time_obj < OClock(15) THEN "Tokyo"
    ELSE IF OClock(20) <= time_obj \/ time_obj < OClock(5) THEN "New York"
    ELSE "Unknown"

\* The text 'N/A'.
NAText == <<NA, NA>>

\* Comparison of two TEXT values as SQLite does it, character by
\* character: date first, then time of day; 'N/A' sorts after every
\* date text because 'N' follows the digits.
TextLess(a, b) ==
    IF a = NAText THEN FALSE
    ELSE IF b = NAText THEN TRUE
    ELSE a[1] < b[1] \/ (a[1] = b[1] /\ a[2] < b[2])

TextLeq(a, b) == a = b \/ TextLess(a, b)

(* ----------------------------- database.py ----------------------------- *)
\* A candle row; the table candle_M15 is a set of rows, UNIQUE(symbol, time).
Candle(t, o, h, l) == [time |-> format_datetime_for_db(t), open |-> o, high |-> h, low |-> l]

NoCandle == [time |-> NAText, open |-> 0, high |-> 0, low |-> 0]

\* Faults of one database call: none, sqlite3.connect raises, or the
\* statement raises after the connection was opened.
Faults == {"none", "connect", "execute"}

\* The lookup with 'time >= ?': the first row at or after time_str.
get_candle_at_time_or_later(table, time_str, fault) ==
    IF fault = "connect" THEN [raised |-> TRUE, found |-> FALSE, candle |-> NoCandle]
    ELSE IF fault = "execute" \/ ~(\E c \in table : TextLeq(time_str, c.time))
    THEN [raised |-> FALSE, found |-> FALSE, candle |-> NoCandle]
    ELSE [raised |-> FALSE, found |-> TRUE,
          candle |-> CHOOSE c \in table :
                        /\ TextLeq(time_str, c.time)
                        /\ \A d \in table : TextLeq(time_str, d.time) => TextLeq(c.time, d.time)]

\* get_candle_at_time: the row with time = time_str, or None.  When connect
\* raises, the handler's 'if conn:' reads an unbound local and the
\* UnboundLocalError leaves the function.
get_candle_at_time(table, time_str, fault) ==
    IF fault = "connect" THEN [raised |-> TRUE, found |-> FALSE, candle |-> NoCandle]
    ELSE IF fault = "execute" \/ ~(\E c \in table : c.time = time_str)
    THEN [raised |-> FALSE, found |-> FALSE, candle |-> NoCandle]
    ELSE [raised |-> FALSE, found |-> TRUE,
          candle |-> CHOOSE c \in table : c.time = time_str]

\* The rows in descending order of time.
RECURSIVE OrderByTimeDesc(_)
OrderByTimeDesc(rows) ==
    IF rows = {} THEN <<>>
    ELSE LET first == CHOOSE c \in rows : \A d \in rows : TextLeq(d.time, c.time)
         IN  <<first>> \o OrderByTimeDesc(rows \ {first})

\* ORDER BY time ASC of a set of rows with distinct times.
RECURSIVE OrderByTime(_)
OrderByTime(rows) ==
    IF rows = {} THEN <<>>
    ELSE LET first == CHOOSE c \in rows : \A d \in rows : TextLeq(c.time, d.time)
         IN  <<first>> \o OrderByTime(rows \ {first})

\* The condition 'time >= ?', which lets the entry candle through.
AfterStart_or_at(c, start_time) == TextLeq(start_time, c.time)

\* WHERE symbol = ? AND time > ?
AfterStart(c, start_time) == TextLess(start_time, c.time)

\* get_subsequent_candles (limit=None): rows with time > start_time in
\* ascending order; [] when the statement raises; the exception leaves the
\* function when connect raises.
get_subsequent_candles(table, start_time, fault) ==
    IF fault = "connect" THEN [raised |-> TRUE, candles |-> <<>>]
    ELSE IF fault = "execute" THEN [raised |-> FALSE, candles |-> <<>>]
    ELSE [raised |-> FALSE,
          candles |-> OrderByTime({c \in table : AfterStart(c, start_time)})]

\* SQL NULL: the value of a column that the INSERT did not name.
Null == <<-2, -2>>

\* The value the INSERT stores in a TEXT column: the dict's value for the
\* key, NULL when the dict has no such key.
Column(e, name) == IF name \in DOMAIN e THEN e[name] ELSE Null

\* Columns of trading_entries that the model keeps of an entry.
Row(e) == [StoplossSize |-> e.StoplossSize, TradeRatio |-> e.TradeRatio,
           StartDatetime |-> Column(e, "StartDatetime"),
           EndDatetime |-> Column(e, "EndDatetime"),
           Result |-> e.Result]

\* The row as stored: 'id INTEGER PRIMARY KEY' numbers the rows, so two
\* inserts of the same values are two rows.
StoredRow(table, e) == [id |-> Cardinality(table) + 1] @@ Row(e)

\* 'StartDatetime' in entry_data and 'EndDatetime' in entry_data
HasWindow(e) == {"StartDatetime", "EndDatetime"} \subseteq DOMAIN e

\* The overlap test that only looks whether the entry starts inside the
\* stored window.
Overlaps_start_inside(row, e) ==
    /\ row.StoplossSize = e.StoplossSize
    /\ row.TradeRatio = e.TradeRatio
    /\ row.StartDatetime # Null
    /\ row.EndDatetime # Null
    /\ TextLeq(row.StartDatetime, e.StartDatetime)
    /\ TextLess(e.StartDatetime, row.EndDatetime)

\* WHERE StoplossSize = ? AND TradeRatio = ?
\*   AND NOT (EndDatetime <= ? OR StartDatetime >= ?)
\* A comparison with NULL is not true, so a row with a NULL bound is
\* never selected.
Overlaps(row, e) ==
    /\ row.StoplossSize = e.StoplossSize
    /\ row.TradeRatio = e.TradeRatio
    /\ row.StartDatetime # Null
    /\ row.EndDatetime # Null
    /\ ~(TextLeq(row.EndDatetime, e.StartDatetime) \/ TextLeq(e.EndDatetime, row.StartDatetime))

\* The rows the SELECT of the overlap check returns.
Matching(table, e) == {row \in table : Overlaps(row, e)}

\* insert_trading_entry: (success, table afterwards), or raised when connect
\* fails.  A failing statement is caught and gives (False, message).  The
\* rows the overlap check found are in matches: fetchone() returns one of
\* them.  The INSERT names every key of the dict as a column, so it raises
\* (and returns False) when the dict has a key that is no column.
insert_trading_entry(table, e, fault) ==
    IF fault = "connect"
    THEN [raised |-> TRUE, success |-> FALSE, error |-> TRUE, matches |-> {}, table |-> table]
    ELSE IF fault = "execute"
    THEN [raised |-> FALSE, success |-> FALSE, error |-> TRUE, matches |-> {}, table |-> table]
    ELSE IF HasWindow(e) /\ Matching(table, e) # {}
    THEN [raised |-> FALSE, success |-> FALSE, error |-> FALSE,
          matches |-> Matching(table, e), table |-> table]
    ELSE IF e.extra_keys
    THEN [raised |-> FALSE, success |-> FALSE, error |-> TRUE, matches |-> {}, table |-> table]
    ELSE [raised |-> FALSE, success |-> TRUE, error |-> FALSE, matches |-> {},
          table |-> table \cup {StoredRow(table, e)}]

(* ------------------------------- state --------------------------------- *)
VARIABLES
    candle_M15,          \* table candle_M15 of the symbol's database
    trading_entries,     \* table trading_entries
    pc,                  \* position of the running backtest_trade call
    entry_data,          \* its argument
    start_datetime,      \* its locals ...
    open_value,
    stoploss_sizes,
    trade_ratios,
    i,                   \* index of the outer loop (stoploss_size)
    j,                   \* index of the inner loop (ratio)
    subsequent_candles,
    k,                   \* index of the scan over subsequent_candles
    results,
    ret,                 \* the value returned
    log,                 \* the error and warning messages logged by the call
    handed,              \* history: entries passed to insert_trading_entry
    fetched,             \* history: outcome of each get_subsequent_candles call
    cause,               \* history: why the call failed
    faults,              \* history: database calls that failed during the call
    lastFailure,         \* history: cause and return value of the last failed call
    all_results,         \* the outcome list handed to the aggregator functions
    summary,             \* the value summarize_backtest_results returned
    drawdown,            \* the value calculate_drawdown returned
    equity_data,         \* the points generate_equity_curve returned
    insert_ret,          \* the value the last insert_trading_entry call returned
    writers,             \* the frames of concurrent insert_trading_entry calls
    write_lock,          \* the writer inside a write transaction, or 0
    entries,             \* the argument of batch_backtest
    entry_index,         \* position of its loop over entries
    returned,            \* history: the value each backtest_trade call returned
    batch_ret,           \* the value batch_backtest returned
    CONFIG,              \* config.py: _CONFIG and the 'trading' dict it shares
    threads,             \* the frames of concurrent backtest_trade calls
    candle_ret,          \* history: the last insert_candle_data call
    News,                \* table News
    pips_ret,            \* history: the last calculate_pips_movement call
    dialog,              \* the BacktestEntryDialog
    session_ret          \* the value get_session_for_time returned

vars == <<candle_M15, trading_entries, pc, entry_data, start_datetime, open_value,
          stoploss_sizes, trade_ratios, i, j, subsequent_candles, k, results,
          ret, log, handed, fetched, cause, faults, lastFailure,
          all_results, summary, drawdown, equity_data, insert_ret, writers, write_lock,
          entries, entry_index, returned, batch_ret, CONFIG, threads,
          candle_ret, News, pips_ret, dialog, session_ret>>

\* The state of one backtest_trade call and its history.
simulator == <<pc, entry_data, start_datetime, open_value, stoploss_sizes, trade_ratios,
               i, j, subsequent_candles, k, results, ret, log, handed, fetched, cause,
               faults, lastFailure>>

\* The state of the statistics functions.
aggregator == <<all_results, summary, drawdown, equity_data>>

\* The state of the direct callers of insert_trading_entry.
repository == <<insert_ret, writers, write_lock>>

\* The state of the callers of backtest_trade.
batch == <<entries, entry_index, returned, batch_ret>>

\* The configuration and the threads that call backtest_trade.
threading == <<CONFIG, threads>>

\* The state of the callers of the other functions.
ancillary == <<candle_ret, News, pips_ret, dialog, session_ret>>

callers == <<batch, threading, ancillary>>

locals == <<start_datetime, open_value, stoploss_sizes, trade_ratios, i, j,
            subsequent_candles, k, results>>

\* The returned value: None, or a list of outcomes.
NoneRet == [isNone |-> TRUE, list |-> <<>>]
ListRet(l) == [isNone |-> FALSE, list |-> l]

(* ------------------------------- inputs -------------------------------- *)
Text(v) == [wf |-> TRUE, v |-> v]
Malformed == [wf |-> FALSE, v |-> 0]

DayTexts == {Text(0), Malformed}
TimeTexts == {Text(SlotsPerDay - 1), Malformed}
Positions == {"Buy", "Sell", ""}
SaveFlags == {"True", "False", "absent"}

\* Entries that pass the checks of lines 59-87, and one entry for each
\* way of failing them.
GoodEntries ==
    [day : {Text(0)}, OpenTime : {Text(SlotsPerDay - 1)}, position : {"Buy", "Sell"},
     stoploss_sizes : ListsUpTo(SizeVals, MaxGrid),
     trade_ratios : ListsUpTo(RatioVals, MaxGrid),
     save_to_db : SaveFlags]

BadEntries ==
    [day : DayTexts, OpenTime : TimeTexts, position : Positions,
     stoploss_sizes : {<<>>}, trade_ratios : {<<>>}, save_to_db : {"absent"}]

EntryData == GoodEntries \cup BadEntries

\* The candles a slot can hold: open at BasePrice, high and low one of
\* Moves away from it.  The candle of the first slot, where the entries
\* open, moves both ways.
CandlesAt(t) ==
    IF t = FirstSlot
    THEN {Candle(t, BasePrice, BasePrice + 1, BasePrice - 1)}
    ELSE {Candle(t, BasePrice, BasePrice + up, BasePrice - down) : up, down \in Moves}

\* The tables over a set of slots; UNIQUE(symbol, time): at most one row
\* per time.
RECURSIVE TablesOver(_)
TablesOver(slots) ==
    IF slots = {} THEN {{}}
    ELSE LET t == CHOOSE x \in slots : TRUE
         IN  {T \cup X : T \in TablesOver(slots \ {t}),
                         X \in {{}} \cup {{c} : c \in CandlesAt(t)}}

CandleTables == TablesOver(Slots)

\* Entries another caller of insert_trading_entry writes: dicts whose keys
\* are all columns of the table.
ExternalEntries ==
    {[StoplossSize |-> 1, TradeRatio |-> <<1, 1>>, Result |-> "Winning",
      StartDatetime |-> format_datetime_for_db(FirstSlot),
      EndDatetime |-> format_datetime_for_db(e), extra_keys |-> FALSE] :
        e \in {FirstSlot + NumSlots - 1}}

(* --------------------------- backtest_trade ---------------------------- *)
stoploss_price(stoploss_size) == stoploss_size * ratiopips

\* The take-profit level on the stop-loss side of the open.
take_profit_price_mirrored(position, open, stoploss_size, ratio) ==
    IF position = "Buy"
    THEN open - (stoploss_price(stoploss_size) * ratio)
    ELSE open + (stoploss_price(stoploss_size) * ratio)

take_profit_price(position, open, stoploss_size, ratio) ==
    IF position = "Buy"
    THEN open + (stoploss_price(stoploss_size) * ratio)
    ELSE open - (stoploss_price(stoploss_size) * ratio)

stop_loss_price(position, open, stoploss_size) ==
    IF position = "Buy"
    THEN open - stoploss_price(stoploss_size)
    ELSE open + stoploss_price(stoploss_size)

\* The two tests in the other order: the stop-loss first.
result_status_loss_first(position, subcandle, tp, sl) ==
    IF position = "Buy"
    THEN IF subcandle.low <= sl THEN "Losing"
         ELSE IF subcandle.high >= tp THEN "Winning"
         ELSE ""
    ELSE IF subcandle.high >= sl THEN "Losing"
         ELSE IF subcandle.low <= tp THEN "Winning"
         ELSE ""

\* The tests with strict comparisons: a level is touched only when crossed.
result_status_strict(position, subcandle, tp, sl) ==
    IF position = "Buy"
    THEN IF subcandle.high > tp THEN "Winning"
         ELSE IF subcandle.low < sl THEN "Losing"
         ELSE ""
    ELSE IF subcandle.low < tp THEN "Winning"
         ELSE IF subcandle.high > sl THEN "Losing"
         ELSE ""

\* The test of one subcandle: 'Winning', 'Losing', or '' when neither level
\* is touched (found_result stays False).
result_status(position, subcandle, tp, sl) ==
    IF position = "Buy"
    THEN IF subcandle.high >= tp THEN "Winning"
         ELSE IF subcandle.low <= sl THEN "Losing"
         ELSE ""
    ELSE IF subcandle.low <= tp THEN "Winning"
         ELSE IF subcandle.high >= sl THEN "Losing"
         ELSE ""

\* entry_data.get(key) or config[...]: an empty or absent list is falsy.
OrConfig(list, config) == IF list = <<>> THEN config ELSE list

\* entry_data.get('save_to_db', False): an absent flag read as False.
SaveRequested_default_off(e) == e.save_to_db = "True"

\* entry_data.get('save_to_db', True)
SaveRequested(e) == e.save_to_db # "False"

\* round(duration.total_seconds() / 3600, 1), in tenths of an hour.
duration_hours(close, start) == RoundTenths(close - start, 4)

\* The entry with no key but the columns of trading_entries.
ResolvedEntry_columns_only(stoploss_size, ratio, status, start, candle_time) ==
    LET day_close_datetime == strptime(candle_time)
    IN  [StoplossSize |-> stoploss_size,
         TradeRatio |-> <<1, ratio>>,
         Closeday |-> format_display_date(day_close_datetime),
         CloseTime |-> format_display_time(day_close_datetime),
         Result |-> status,
         session |-> get_session_for_time(time_only(start)),
         StartDatetime |-> format_datetime_for_db(start),
         EndDatetime |-> format_datetime_for_db(day_close_datetime),
         duration_hours |-> duration_hours(day_close_datetime, start),
         extra_keys |-> FALSE]

\* The entry appended when a candle resolves the trade.
ResolvedEntry(stoploss_size, ratio, status, start, candle_time) ==
    LET day_close_datetime == strptime(candle_time)
    IN  [StoplossSize |-> stoploss_size,
         TradeRatio |-> <<1, ratio>>,
         Closeday |-> format_display_date(day_close_datetime),
         CloseTime |-> format_display_time(day_close_datetime),
         Result |-> status,
         session |-> get_session_for_time(time_only(start)),
         StartDatetime |-> format_datetime_for_db(start),
         EndDatetime |-> format_datetime_for_db(day_close_datetime),
         duration_hours |-> duration_hours(day_close_datetime, start),
         extra_keys |-> TRUE]

\* The entry appended when the candles run out.
InconclusiveEntry(stoploss_size, ratio, start) ==
    [StoplossSize |-> stoploss_size,
     TradeRatio |-> <<1, ratio>>,
     Closeday |-> NA,
     CloseTime |-> NA,
     Result |-> "Inconclusive",
     session |-> get_session_for_time(time_only(start)),
     StartDatetime |-> format_datetime_for_db(start),
     EndDatetime |-> NAText,
     duration_hours |-> 0,
     extra_keys |-> TRUE]

\* The outer loop advancing with every pair, as in a loop over zip().
NextI_zip == i + 1

\* The next (i, j) of the nested for loops.
NextI == IF j < Len(trade_ratios) THEN i ELSE i + 1
NextJ == IF j < Len(trade_ratios) THEN j + 1 ELSE 1

NoLocals ==
    /\ start_datetime = NoneTime
    /\ open_value = 0
    /\ stoploss_sizes = <<>>
    /\ trade_ratios = <<>>
    /\ i = 1
    /\ j = 1
    /\ subsequent_candles = <<>>
    /\ k = 1
    /\ results = <<>>

\* No function has been called yet.
NotCalled == [called |-> FALSE]

\* No backtest_trade call has been made.
NoSimulation ==
    /\ pc = "idle"
    /\ entry_data = CHOOSE e \in EntryData : TRUE
    /\ NoLocals
    /\ ret = NoneRet
    /\ log = {}
    /\ handed = <<>>
    /\ fetched = <<>>
    /\ cause = "none"
    /\ faults = 0
    /\ lastFailure = [cause |-> "none", ret |-> NoneRet]

NoAggregation ==
    /\ all_results = <<>>
    /\ summary = NotCalled
    /\ drawdown = NotCalled
    /\ equity_data = NotCalled

NoWriters ==
    /\ insert_ret = NotCalled
    /\ writers = <<>>
    /\ write_lock = 0

\* The configuration after setup_config: _CONFIG is set and the 'trading'
\* dict holds the values of settings.json.
SetUp ==
    [loaded |-> TRUE,
     trading |-> [stoploss_sizes |-> ConfigStoplossSizes, trade_ratios |-> ConfigTradeRatios]]

NoBatch ==
    /\ entries = <<>>
    /\ entry_index = 1
    /\ returned = <<>>
    /\ batch_ret = NotCalled

NoThreads ==
    /\ CONFIG = SetUp
    /\ threads = <<>>

\* The dialog as __init__ leaves it.
NoDialog ==
    [open |-> FALSE, ran |-> FALSE, backtest_results |-> ListRet(<<>>), shown |-> <<>>,
     success |-> FALSE]

NoAncillary ==
    /\ candle_ret = NotCalled
    /\ News = {}
    /\ pips_ret = NotCalled
    /\ dialog = NoDialog
    /\ session_ret = NotCalled

NoCallers ==
    /\ NoBatch
    /\ NoThreads
    /\ NoAncillary

Init ==
    /\ candle_M15 \in CandleTables
    /\ trading_entries = {}
    /\ NoSimulation
    /\ NoAggregation
    /\ NoWriters
    /\ NoCallers

\* The outcomes of the next database call: at most MaxFaults calls fail.
FaultChoice == IF faults < MaxFaults THEN Faults ELSE {"none"}
Count(fault) == faults' = IF fault = "none" THEN faults ELSE faults + 1
\* The outcomes of a call of insert_trading_entry worth telling apart: a
\* statement error in a call that returns False anyway is the same outcome.
InsertFaultChoice(table, e) ==
    {fault \in FaultChoice :
        fault = "execute" => insert_trading_entry(table, e, "none").success}

\* Leaving through 'return None' or through the except clause.
Abort(why, msg) ==
    /\ pc' = "done"
    /\ ret' = NoneRet
    /\ cause' = why
    /\ log' = log \cup {msg}

\* Another caller inserts an entry into trading_entries.
OtherWriter ==
    /\ pc = "idle"
    /\ trading_entries = {}
    /\ \E e \in ExternalEntries, fault \in Faults :
          trading_entries' = insert_trading_entry(trading_entries, e, fault).table
    /\ UNCHANGED <<candle_M15, pc, entry_data, locals, ret, log, handed, fetched,
                   cause, faults, lastFailure>>
    /\ UNCHANGED <<aggregator, repository, callers>>

\* backtest_trade is called with an entry of the set E: lines 43-90, up to
\* the first pair of the grid.
CallWith(E) ==
    /\ pc = "idle"
    /\ \E e \in E, fault \in FaultChoice :
          LET start == combine_date_and_time(e.day, e.OpenTime)
              db_time_str == format_datetime_for_db(start)
              got == get_candle_at_time(candle_M15, db_time_str, fault)
          IN  /\ entry_data' = e
              /\ faults' = IF start = NoneTime \/ fault = "none" THEN faults ELSE faults + 1
              /\ IF start = NoneTime
                 THEN /\ Abort("InvalidTimeSpec", "parse_failed")
                      /\ UNCHANGED locals
                 ELSE IF got.raised
                 THEN /\ Abort("DataSourceUnavailable", "exception")
                      /\ start_datetime' = start
                      /\ UNCHANGED <<open_value, stoploss_sizes, trade_ratios, i, j,
                                     subsequent_candles, k, results>>
                 ELSE IF ~got.found
                 THEN /\ Abort(IF fault = "execute" THEN "DataSourceUnavailable"
                                                    ELSE "NoPriceData", "no_candle")
                      /\ start_datetime' = start
                      /\ UNCHANGED <<open_value, stoploss_sizes, trade_ratios, i, j,
                                     subsequent_candles, k, results>>
                 ELSE IF e.position = ""
                 THEN /\ Abort("NoPosition", "no_position")
                      /\ start_datetime' = start
                      /\ open_value' = got.candle.open
                      /\ stoploss_sizes' = OrConfig(e.stoploss_sizes, ConfigStoplossSizes)
                      /\ trade_ratios' = OrConfig(e.trade_ratios, ConfigTradeRatios)
                      /\ UNCHANGED <<i, j, subsequent_candles, k, results>>
                 ELSE /\ pc' = "pair"
                      /\ start_datetime' = start
                      /\ open_value' = got.candle.open
                      /\ stoploss_sizes' = OrConfig(e.stoploss_sizes, ConfigStoplossSizes)
                      /\ trade_ratios' = OrConfig(e.trade_ratios, ConfigTradeRatios)
                      /\ UNCHANGED <<i, j, subsequent_candles, k, results, ret, log, cause>>
    /\ UNCHANGED <<candle_M15, trading_entries, handed, fetched, lastFailure>>
    /\ UNCHANGED <<aggregator, repository, callers>>

Call == CallWith(EntryData)

\* Lines 92-109: the next pair of the grid; its candles are fetched.
Fetch ==
    /\ pc = "pair"
    /\ i <= Len(stoploss_sizes)
    /\ \E fault \in FaultChoice :
          LET got == get_subsequent_candles(candle_M15,
                         format_datetime_for_db(start_datetime), fault)
          IN  /\ Count(fault)
              /\ fetched' = Append(fetched, [fault |-> fault, candles |-> got.candles])
              /\ IF got.raised
                 THEN /\ Abort("DataSourceUnavailable", "exception")
                      /\ UNCHANGED <<subsequent_candles, k>>
                 ELSE /\ subsequent_candles' = got.candles
                      /\ k' = 1
                      /\ pc' = "scan"
                      /\ UNCHANGED <<ret, log, cause>>
    /\ UNCHANGED <<candle_M15, trading_entries, entry_data, start_datetime, open_value,
                   stoploss_sizes, trade_ratios, i, j, results, handed, lastFailure>>
    /\ UNCHANGED <<aggregator, repository, callers>>

\* Lines 110-164: one iteration of the scan over subsequent_candles.
Scan ==
    /\ pc = "scan"
    /\ k <= Len(subsequent_candles)
    /\ LET stoploss_size == stoploss_sizes[i]
           ratio == trade_ratios[j]
           tp == take_profit_price(entry_data.position, open_value, stoploss_size, ratio)
           sl == stop_loss_price(entry_data.position, open_value, stoploss_size)
           subcandle == subsequent_candles[k]
           status == result_status(entry_data.position, subcandle, tp, sl)
           entry_result == ResolvedEntry(stoploss_size, ratio, status, start_datetime,
                                         subcandle.time)
       IN  IF status = ""
           THEN /\ k' = k + 1
                /\ UNCHANGED <<pc, i, j, results, ret, log, cause, handed, trading_entries,
                               faults>>
           ELSE /\ results' = Append(results, entry_result)
                /\ IF SaveRequested(entry_data)
                   THEN \E fault \in InsertFaultChoice(trading_entries, entry_result) :
                           LET ins == insert_trading_entry(trading_entries, entry_result, fault)
                           IN  /\ Count(fault)
                               /\ handed' = Append(handed, entry_result)
                               /\ trading_entries' = ins.table
                               /\ IF ins.raised
                                  THEN /\ Abort("PersistenceFailure", "exception")
                                       /\ UNCHANGED <<i, j, k>>
                                  ELSE /\ log' = IF ins.success THEN log
                                                 ELSE log \cup {"save_failed"}
                                       /\ pc' = "pair"
                                       /\ i' = NextI
                                       /\ j' = NextJ
                                       /\ UNCHANGED <<k, ret, cause>>
                   ELSE /\ pc' = "pair"
                        /\ i' = NextI
                        /\ j' = NextJ
                        /\ UNCHANGED <<k, ret, log, cause, handed, trading_entries, faults>>
    /\ UNCHANGED <<candle_M15, entry_data, start_datetime, open_value, stoploss_sizes,
                   trade_ratios, subsequent_candles, fetched, lastFailure>>
    /\ UNCHANGED <<aggregator, repository, callers>>

\* Lines 166-182: the candles ran out without a result.
Exhausted ==
    /\ pc = "scan"
    /\ k > Len(subsequent_candles)
    /\ results' = Append(results,
                         InconclusiveEntry(stoploss_sizes[i], trade_ratios[j], start_datetime))
    /\ log' = log \cup {"no_outcome"}
    /\ pc' = "pair"
    /\ i' = NextI
    /\ j' = NextJ
    /\ UNCHANGED <<candle_M15, trading_entries, entry_data, start_datetime, open_value,
                   stoploss_sizes, trade_ratios, subsequent_candles, k, ret, handed,
                   fetched, cause, faults, lastFailure>>
    /\ UNCHANGED <<aggregator, repository, callers>>

\* Line 184: return results.
Return ==
    /\ pc = "pair"
    /\ i > Len(stoploss_sizes)
    /\ pc' = "done"
    /\ ret' = ListRet(results)
    /\ UNCHANGED <<candle_M15, trading_entries, entry_data, locals, log, handed,
                   fetched, cause, faults, lastFailure>>
    /\ UNCHANGED <<aggregator, repository, callers>>

\* The frame of the call is gone; the next call starts afresh.
Reset ==
    /\ pc' = "idle"
    /\ lastFailure' = IF ret.isNone THEN [cause |-> cause, ret |-> ret] ELSE lastFailure
    /\ start_datetime' = NoneTime
    /\ open_value' = 0
    /\ stoploss_sizes' = <<>>
    /\ trade_ratios' = <<>>
    /\ i' = 1
    /\ j' = 1
    /\ subsequent_candles' = <<>>
    /\ k' = 1
    /\ results' = <<>>
    /\ entry_data' = CHOOSE e \in EntryData : TRUE
    /\ ret' = NoneRet
    /\ log' = {}
    /\ handed' = <<>>
    /\ fetched' = <<>>
    /\ cause' = "none"
    /\ faults' = 0

\* The caller has the returned value.
Finish ==
    /\ pc = "done"
    /\ Reset
    /\ UNCHANGED <<candle_M15, trading_entries>>
    /\ UNCHANGED <<aggregator, repository, callers>>

\* One call of backtest_trade on any candle table, trading_entries being
\* empty as init_db leaves it.
Next == Call \/ Fetch \/ Scan \/ Exhausted \/ Return

Spec == Init /\ [][Next]_vars

\* One call with a single pair whose stop-loss size and ratio range over
\* negative, zero and positive values.
LevelVals == -1 .. 2

WideEntries ==
    [day : {Text(0)}, OpenTime : {Text(SlotsPerDay - 1)}, position : {"Buy", "Sell"},
     stoploss_sizes : {<<v>> : v \in LevelVals},
     trade_ratios : {<<v>> : v \in LevelVals},
     save_to_db : {"False"}]

NextLevels == CallWith(WideEntries) \/ Fetch \/ Scan \/ Exhausted \/ Return

SpecLevels == Init /\ [][NextLevels]_vars

\* A sequence of calls, on candle tables of at most two candles, with
\* another writer of trading_entries.
InitCalls == Init /\ Cardinality(candle_M15) <= 2

NextCalls == Next \/ Finish \/ OtherWriter

SpecCalls == InitCalls /\ [][NextCalls]_vars

(* ---------------- direct callers of insert_trading_entry --------------- *)
\* The (StoplossSize, TradeRatio) labels of the entries.
InsertKeys == {<<1, <<1, 1>>>>, <<1, <<1, 2>>>>, <<2, <<1, 1>>>>}

\* The [StartDatetime, EndDatetime] windows of the entries: three that run
\* forward, one of length zero, one that runs backward, two that end with
\* 'N/A'.
InsertWindows ==
    {<<format_datetime_for_db(FirstSlot + w[1]), format_datetime_for_db(FirstSlot + w[2])>> :
        w \in {<<0, 1>>, <<1, 2>>, <<0, 2>>, <<1, 1>>, <<2, 0>>}}
    \cup {<<format_datetime_for_db(FirstSlot + a), NAText>> : a \in {0, 2}}

\* The windows of the entries of labels other than the first: two that
\* overlap each other and most of InsertWindows.
OtherWindows ==
    {<<format_datetime_for_db(FirstSlot), format_datetime_for_db(FirstSlot + w)>> : w \in {1, 2}}

\* The dicts a direct caller passes: every key is a column of the table;
\* one dict has no 'EndDatetime'.
InsertEntries ==
    {[StoplossSize |-> kw[1][1], TradeRatio |-> kw[1][2], Result |-> "Winning",
      StartDatetime |-> kw[2][1], EndDatetime |-> kw[2][2], extra_keys |-> FALSE] :
        kw \in {x \in InsertKeys \X InsertWindows :
                    x[1] = <<1, <<1, 1>>>> \/ x[2] \in OtherWindows}}
    \cup {[StoplossSize |-> 1, TradeRatio |-> <<1, 1>>, Result |-> "Winning",
           StartDatetime |-> format_datetime_for_db(FirstSlot), extra_keys |-> FALSE]}

\* One call of insert_trading_entry from start to return, on a store that
\* holds at most MaxStored rows afterwards.  insert_ret keeps the argument,
\* the store before the call and the returned pair; existing_entry is the
\* row fetchone() returned, if any.
InsertCall ==
    /\ \E e \in InsertEntries, fault \in Faults :
          LET ins == insert_trading_entry(trading_entries, e, fault)
          IN  /\ Cardinality(ins.table) <= MaxStored
              /\ trading_entries' = ins.table
              /\ \E existing_entry \in IF ins.matches = {} THEN {{}}
                                        ELSE {{row} : row \in ins.matches} :
                    insert_ret' = [called |-> TRUE, entry |-> e, before |-> trading_entries,
                                   raised |-> ins.raised, success |-> ins.success,
                                   error |-> ins.error, existing_entry |-> existing_entry]
    /\ UNCHANGED <<callers, candle_M15, simulator, aggregator, writers, write_lock>>

\* Sequential calls of insert_trading_entry on an empty candle table.
InitInserts ==
    /\ candle_M15 = {}
    /\ trading_entries = {}
    /\ NoSimulation
    /\ NoAggregation
    /\ NoWriters
    /\ NoCallers

NextInserts == InsertCall

SpecInserts == InitInserts /\ [][NextInserts]_vars

(* -------------- concurrent callers of insert_trading_entry ------------- *)
\* Two callers, each with its own connection (line 212).
Writers == {1, 2}

\* The frame of a caller that has not called yet.
IdleFrame ==
    [pc |-> "idle", entry |-> CHOOSE e \in InsertEntries : TRUE, existing_entry |-> {},
     success |-> FALSE, error |-> FALSE]

\* The frames after writer w changed the fields f of its own.
Moved(w, f) == [writers EXCEPT ![w] = f @@ writers[w]]

\* Lines 209-216: the call connects; the overlap check is skipped when the
\* dict has no window.
WriterCall ==
    /\ \E w \in Writers, e \in InsertEntries :
          /\ writers[w].pc = "idle"
          /\ writers' = Moved(w, [pc |-> IF HasWindow(e) THEN "select" ELSE "insert",
                                   entry |-> e])
    /\ UNCHANGED <<callers, candle_M15, trading_entries, simulator, aggregator, insert_ret,
                   write_lock>>

\* Lines 217-229: the SELECT reads the committed rows; a row found ends
\* the call with (False, row).
WriterSelect ==
    /\ \E w \in Writers :
          /\ writers[w].pc = "select"
          /\ LET found == Matching(trading_entries, writers[w].entry)
             IN  IF found = {}
                 THEN writers' = Moved(w, [pc |-> "insert"])
                 ELSE \E row \in found :
                         writers' = Moved(w, [pc |-> "done", existing_entry |-> {row}])
    /\ UNCHANGED <<callers, candle_M15, trading_entries, simulator, aggregator, insert_ret,
                   write_lock>>

\* Lines 231-239: the INSERT opens the write transaction; SQLite admits one
\* write transaction at a time and the statement waits while another is
\* open.  An INSERT that names a key that is no column raises.
WriterInsert ==
    /\ write_lock = 0
    /\ \E w \in Writers :
          /\ writers[w].pc = "insert"
          /\ IF writers[w].entry.extra_keys
             THEN /\ writers' = Moved(w, [pc |-> "done", error |-> TRUE])
                  /\ UNCHANGED write_lock
             ELSE /\ writers' = Moved(w, [pc |-> "commit"])
                  /\ write_lock' = w
    /\ UNCHANGED <<callers, candle_M15, trading_entries, simulator, aggregator, insert_ret>>

\* Lines 250-255: the wait for the other write transaction times out,
\* 'database is locked' is caught and the call returns (False, message).
WriterLocked ==
    /\ write_lock # 0
    /\ \E w \in Writers :
          /\ writers[w].pc = "insert"
          /\ writers' = Moved(w, [pc |-> "done", error |-> TRUE])
    /\ UNCHANGED <<callers, candle_M15, trading_entries, simulator, aggregator, insert_ret,
                   write_lock>>

\* Lines 241-245: commit makes the row visible and ends the transaction; the
\* call returns (True, None).
WriterCommit ==
    /\ \E w \in Writers :
          /\ writers[w].pc = "commit"
          /\ write_lock = w
          /\ trading_entries' =
                trading_entries \cup {StoredRow(trading_entries, writers[w].entry)}
          /\ writers' = Moved(w, [pc |-> "done", success |-> TRUE])
          /\ write_lock' = 0
    /\ UNCHANGED <<callers, candle_M15, simulator, aggregator, insert_ret>>

\* Two callers on an empty store, one call each.
InitWriters ==
    /\ candle_M15 = {}
    /\ trading_entries = {}
    /\ NoSimulation
    /\ NoAggregation
    /\ insert_ret = NotCalled
    /\ writers = [w \in Writers |-> IdleFrame]
    /\ write_lock = 0
    /\ NoCallers

NextWriters == WriterCall \/ WriterSelect \/ WriterInsert \/ WriterLocked \/ WriterCommit

SpecWriters == InitWriters /\ [][NextWriters]_vars

(* -------------------- summarize_backtest_results ----------------------- *)
\* Python's None, the value of dict.get for a key the dict does not have.
None == "<None>"

Get(r, key) == IF key \in DOMAIN r THEN r[key] ELSE None

\* A quotient n / d of two naturals, d > 0, in lowest terms.
RECURSIVE GCD(_, _)
GCD(a, b) == IF b = 0 THEN a ELSE GCD(b, a % b)

Quotient(n, d) == [num |-> n \div GCD(n, d), den |-> d \div GCD(n, d)]

Zero == Quotient(0, 1)

\* a / b < c / d
QuotientLess(a, b) == a.num * b.den < b.num * a.den

\* (wins / total) * 100 if total > 0 else 0
Percent(wins, total) == IF total > 0 THEN Quotient(wins * 100, total) ELSE Zero

\* The count that takes every outcome that is not Winning for a Losing one.
CountResult_not_winning(outcomes, status) ==
    IF status = "Losing"
    THEN Len(SelectSeq(outcomes, LAMBDA r : Get(r, "Result") # "Winning"))
    ELSE Len(SelectSeq(outcomes, LAMBDA r : Get(r, "Result") = status))

\* sum(1 for r in results if r.get('Result') == status)
CountResult(outcomes, status) ==
    Len(SelectSeq(outcomes, LAMBDA r : Get(r, "Result") = status))

\* The rate over all the trades, the Inconclusive ones included.
win_rate_over_all(winning_trades, losing_trades, inconclusive_trades) ==
    Percent(winning_trades, winning_trades + losing_trades + inconclusive_trades)

\* Line 254; inconclusive_trades is not used.
win_rate(winning_trades, losing_trades, inconclusive_trades) ==
    Percent(winning_trades, winning_trades + losing_trades)

\* Lines 257-258: the mean of the positive durations (in tenths of an
\* hour) of the outcomes that are not Inconclusive.
RECURSIVE SumDurations(_)
SumDurations(rs) ==
    IF rs = <<>> THEN 0 ELSE Head(rs).duration_hours + SumDurations(Tail(rs))

average_duration(outcomes) ==
    LET durations == SelectSeq(outcomes, LAMBDA r :
                         Get(r, "Result") # "Inconclusive" /\ r.duration_hours > 0)
    IN  IF durations # <<>> THEN Quotient(SumDurations(durations), Len(durations)) ELSE Zero

\* A group map without keys.
EmptyMap == [key \in {} |-> [total |-> 0, wins |-> 0, win_rate |-> Zero]]

\* group[key]['total'] += 1, and ['wins'] += 1 for a Winning outcome, the
\* key being created first when the map does not have it.
Counted(group, key, result) ==
    LET old == IF key \in DOMAIN group THEN group[key]
               ELSE [total |-> 0, wins |-> 0, win_rate |-> Zero]
        new == [total |-> old.total + 1,
                wins |-> old.wins + (IF Get(result, "Result") = "Winning" THEN 1 ELSE 0),
                win_rate |-> Zero]
    IN  [x \in DOMAIN group \cup {key} |-> IF x = key THEN new ELSE group[x]]

\* Lines 269-332 for one dimension: the loop over the results, which skips
\* the Inconclusive ones; a guarded dimension ('if h4:') also skips the
\* outcomes whose value is None or empty.
RECURSIVE GroupBy(_, _, _)
GroupBy(outcomes, key, guarded) ==
    IF outcomes = <<>> THEN EmptyMap
    ELSE LET group == GroupBy(SubSeq(outcomes, 1, Len(outcomes) - 1), key, guarded)
             result == outcomes[Len(outcomes)]
         IN  IF Get(result, "Result") = "Inconclusive" THEN group
             ELSE IF guarded /\ Get(result, key) \in {None, ""} THEN group
             ELSE Counted(group, Get(result, key), result)

\* Lines 334-337: the win rate of every group.
WithRates(group) ==
    [x \in DOMAIN group |-> [group[x] EXCEPT !.win_rate = Percent(group[x].wins, group[x].total)]]

\* The function with the zero test of line 254 left out: the division
\* raises ZeroDivisionError when no outcome is Winning or Losing.
summarize_backtest_results_unguarded(outcomes) ==
    [called |-> TRUE,
     raised |-> CountResult(outcomes, "Winning") + CountResult(outcomes, "Losing") = 0]

\* summarize_backtest_results (lines 221-353).
summarize_backtest_results(outcomes) ==
    IF outcomes = <<>>
    THEN [called |-> TRUE, raised |-> FALSE,
          total_trades |-> 0, winning_trades |-> 0, losing_trades |-> 0,
          inconclusive_trades |-> 0, win_rate |-> Zero, average_duration |-> Zero,
          by_stoploss |-> EmptyMap, by_ratio |-> EmptyMap, by_session |-> EmptyMap,
          by_h4 |-> EmptyMap, by_h1 |-> EmptyMap, by_m15 |-> EmptyMap,
          by_entry_point |-> EmptyMap]
    ELSE LET winning_trades == CountResult(outcomes, "Winning")
             losing_trades == CountResult(outcomes, "Losing")
             inconclusive_trades == CountResult(outcomes, "Inconclusive")
         IN  [called |-> TRUE, raised |-> FALSE,
              total_trades |-> Len(outcomes),
              winning_trades |-> winning_trades,
              losing_trades |-> losing_trades,
              inconclusive_trades |-> inconclusive_trades,
              win_rate |-> win_rate(winning_trades, losing_trades, inconclusive_trades),
              average_duration |-> average_duration(outcomes),
              by_stoploss |-> WithRates(GroupBy(outcomes, "StoplossSize", FALSE)),
              by_ratio |-> WithRates(GroupBy(outcomes, "TradeRatio", FALSE)),
              by_session |-> WithRates(GroupBy(outcomes, "session", FALSE)),
              by_h4 |-> WithRates(GroupBy(outcomes, "H4", TRUE)),
              by_h1 |-> WithRates(GroupBy(outcomes, "H1", TRUE)),
              by_m15 |-> WithRates(GroupBy(outcomes, "M15", TRUE)),
              by_entry_point |-> WithRates(GroupBy(outcomes, "EntryPoint", TRUE))]

\* The outcomes of two entries: the dict of lines 142-153 and 168-179, with
\* the tags the entry carries.
Profile(n, result) ==
    [Result |-> result,
     StoplossSize |-> n,
     TradeRatio |-> <<1, n>>,
     session |-> IF n = 1 THEN "London" ELSE "Tokyo",
     H4 |-> IF n = 1 THEN "Up" ELSE "Down",
     H1 |-> IF n = 1 THEN "Up" ELSE "Down",
     M15 |-> IF n = 1 THEN "Up" ELSE "Down",
     EntryPoint |-> IF n = 1 THEN "OB" ELSE "FVG",
     duration_hours |-> IF result = "Inconclusive" THEN 0 ELSE 5 * n]

Tags == {"session", "H4", "H1", "M15", "EntryPoint"}

\* The outcome without the key, and with an empty value for it.
Without(r, key) == [f \in DOMAIN r \ {key} |-> r[f]]
Emptied(r, key) == [r EXCEPT ![key] = ""]

\* The outcomes given to the function: those of the two entries, and those
\* of the first with one tag absent or empty.
SummaryOutcomes ==
    {Profile(n, result) : n \in {1, 2}, result \in {"Winning", "Losing", "Inconclusive"}}
    \cup {Without(Profile(1, result), key) : result \in {"Winning", "Losing"}, key \in Tags}
    \cup {Emptied(Profile(1, result), key) : result \in {"Winning", "Losing"}, key \in Tags}

\* Line 455 of the panel, line 214 of batch_backtest: the call.
Summarize ==
    /\ ~summary.called
    /\ summary' = summarize_backtest_results(all_results)
    /\ UNCHANGED <<callers, candle_M15, trading_entries, simulator, all_results, drawdown,
                   equity_data, repository>>

InitSummary ==
    /\ candle_M15 = {}
    /\ trading_entries = {}
    /\ NoSimulation
    /\ all_results \in UNION {[1..n -> SummaryOutcomes] : n \in 0..MaxOutcomes}
    /\ summary = NotCalled
    /\ drawdown = NotCalled
    /\ equity_data = NotCalled
    /\ NoWriters
    /\ NoCallers

NextSummary == Summarize

SpecSummary == InitSummary /\ [][NextSummary]_vars

(* ------------- calculate_drawdown and generate_equity_curve ------------ *)
\* The list as the call received it.
unsorted(outcomes) == outcomes

\* sorted(results, key=lambda x: x.get('StartDatetime', '')): a stable sort
\* on the text of StartDatetime.
RECURSIVE sorted(_)
sorted(outcomes) ==
    IF outcomes = <<>> THEN <<>>
    ELSE LET front == sorted(SubSeq(outcomes, 1, Len(outcomes) - 1))
             last == outcomes[Len(outcomes)]
             keep == {n \in 1..Len(front) : TextLeq(front[n].StartDatetime, last.StartDatetime)}
         IN  SubSeq(front, 1, Cardinality(keep)) \o <<last>>
             \o SubSeq(front, Cardinality(keep) + 1, Len(front))

\* float(ratio_str.split(':')[1]): the N of the label '1:N'.
ratio_of(result) == result.TradeRatio[2]

\* A winning trade that adds the risked 2 units whatever its ratio.
profit_flat(result) == IF result.Result = "Winning" THEN 2 ELSE -2

\* Lines 401-408 and 470-476: the change of the balance, risk_percent being
\* 2; every outcome that is not Winning is taken for a Losing one.
profit(result) == IF result.Result = "Winning" THEN 2 * ratio_of(result) ELSE -2

\* None where a timestamp text is expected.
NoneStamp == <<-3, -3>>

\* The drawdown measured from the starting balance of 100.
drawdown_percent_of_start(peak_balance, balance) ==
    IF balance < 100 THEN Quotient((100 - balance) * 100, 100) ELSE Zero

\* (peak_balance - balance) / peak_balance * 100
drawdown_percent(peak_balance, balance) ==
    Quotient((peak_balance - balance) * 100, peak_balance)

\* Lines 384-390: the locals before the loop.
DrawdownStart ==
    [balance |-> 100, peak_balance |-> 100, current_drawdown |-> Zero,
     max_drawdown |-> Zero, max_drawdown_start |-> NoneStamp,
     max_drawdown_end |-> NoneStamp, drawdown_periods |-> <<>>]

\* Lines 392-433: one iteration of the loop.
DrawdownStep(f, result) ==
    IF result.Result = "Inconclusive" THEN f
    ELSE LET balance == f.balance + profit(result)
             new_peak == balance > f.peak_balance
             record == new_peak /\ QuotientLess(Zero, f.current_drawdown)
             peak_balance == IF new_peak THEN balance ELSE f.peak_balance
             drawdown_periods ==
                 IF record
                 THEN Append(f.drawdown_periods,
                             [start |-> f.max_drawdown_start,
                              end |-> result.EndDatetime,
                              depth |-> f.current_drawdown,
                              recovery_trades |-> 1])
                 ELSE f.drawdown_periods
             start == IF record THEN NoneStamp ELSE f.max_drawdown_start
             current_drawdown == drawdown_percent(peak_balance, balance)
             deeper == QuotientLess(f.max_drawdown, current_drawdown)
         IN  [balance |-> balance,
              peak_balance |-> peak_balance,
              current_drawdown |-> current_drawdown,
              max_drawdown |-> IF deeper THEN current_drawdown ELSE f.max_drawdown,
              max_drawdown_start |-> IF deeper /\ start = NoneStamp
                                     THEN result.StartDatetime ELSE start,
              max_drawdown_end |-> IF deeper THEN result.EndDatetime
                                   ELSE f.max_drawdown_end,
              drawdown_periods |-> drawdown_periods]

\* The locals after the loop over the list.
RECURSIVE DrawdownLoop(_)
DrawdownLoop(outcomes) ==
    IF outcomes = <<>> THEN DrawdownStart
    ELSE DrawdownStep(DrawdownLoop(SubSeq(outcomes, 1, Len(outcomes) - 1)),
                      outcomes[Len(outcomes)])

\* calculate_drawdown (lines 370-442): the returned dict, and the local
\* sorted_results.
calculate_drawdown(outcomes) ==
    LET sorted_results == sorted(outcomes)
        f == DrawdownLoop(sorted_results)
    IN  [called |-> TRUE,
         sorted_results |-> sorted_results,
         max_drawdown_percent |-> f.max_drawdown,
         max_drawdown_start |-> f.max_drawdown_start,
         max_drawdown_end |-> f.max_drawdown_end,
         final_balance |-> f.balance,
         peak_balance |-> f.peak_balance,
         drawdown_periods |-> f.drawdown_periods]

\* Lines 460-486: the points of the loop over the list.
RECURSIVE EquityLoop(_)
EquityLoop(outcomes) ==
    IF outcomes = <<>> THEN [balance |-> 100, equity_data |-> <<>>]
    ELSE LET f == EquityLoop(SubSeq(outcomes, 1, Len(outcomes) - 1))
             result == outcomes[Len(outcomes)]
             balance == f.balance + profit(result)
         IN  IF result.Result = "Inconclusive" THEN f
             ELSE [balance |-> balance,
                   equity_data |-> Append(f.equity_data,
                       [datetime |-> result.EndDatetime,
                        balance |-> balance,
                        trade_result |-> result.Result,
                        position |-> Get(result, "position"),
                        stoploss |-> result.StoplossSize,
                        ratio |-> result.TradeRatio])]

\* generate_equity_curve (lines 444-494): the rows of the returned frame,
\* and the local sorted_results.
generate_equity_curve(outcomes) ==
    LET sorted_results == sorted(outcomes)
    IN  [called |-> TRUE,
         sorted_results |-> sorted_results,
         rows |-> EquityLoop(sorted_results).equity_data]

\* The outcomes given to the two functions: entries at two times, a day
\* boundary between them; a Winning or Losing outcome ends one slot after
\* its entry.
Trade(result, n, slot) ==
    [Result |-> result,
     StoplossSize |-> 1,
     TradeRatio |-> <<1, n>>,
     StartDatetime |-> format_datetime_for_db(slot),
     EndDatetime |-> IF result = "Inconclusive" THEN NAText
                     ELSE format_datetime_for_db(slot + 1)]

Trades ==
    {Trade(result, n, slot) : result \in {"Winning", "Losing"}, n \in {1, 2},
                              slot \in {FirstSlot, FirstSlot + 1}}
    \cup {Trade("Inconclusive", 1, slot) : slot \in {FirstSlot, FirstSlot + 1}}

\* Lines 1004 and 1011 of the panel: the calls.
CalculateDrawdown ==
    /\ ~drawdown.called
    /\ drawdown' = calculate_drawdown(all_results)
    /\ UNCHANGED <<callers, candle_M15, trading_entries, simulator, all_results, summary,
                   equity_data, repository>>

GenerateEquityCurve ==
    /\ ~equity_data.called
    /\ equity_data' = generate_equity_curve(all_results)
    /\ UNCHANGED <<callers, candle_M15, trading_entries, simulator, all_results, summary,
                   drawdown, repository>>

InitCurves ==
    /\ candle_M15 = {}
    /\ trading_entries = {}
    /\ NoSimulation
    /\ all_results \in UNION {[1..n -> Trades] : n \in 0..MaxTrades}
    /\ summary = NotCalled
    /\ drawdown = NotCalled
    /\ equity_data = NotCalled
    /\ NoWriters
    /\ NoCallers

NextCurves == CalculateDrawdown \/ GenerateEquityCurve

SpecCurves == InitCurves /\ [][NextCurves]_vars

(* ---------------------------- batch_backtest --------------------------- *)
\* The entries of a batch: two that pass the checks of backtest_trade, one
\* with a malformed day and one without a position.
BatchEntries ==
    {[day |-> Text(0), OpenTime |-> Text(SlotsPerDay - 1), position |-> "Buy",
      stoploss_sizes |-> <<1>>, trade_ratios |-> <<1, 2>>, save_to_db |-> "True"],
     [day |-> Text(0), OpenTime |-> Text(SlotsPerDay - 1), position |-> "Sell",
      stoploss_sizes |-> <<1>>, trade_ratios |-> <<2, 1>>, save_to_db |-> "False"],
     [day |-> Malformed, OpenTime |-> Text(SlotsPerDay - 1), position |-> "Buy",
      stoploss_sizes |-> <<>>, trade_ratios |-> <<>>, save_to_db |-> "absent"],
     [day |-> Text(0), OpenTime |-> Text(SlotsPerDay - 1), position |-> "",
      stoploss_sizes |-> <<>>, trade_ratios |-> <<>>, save_to_db |-> "absent"]}

\* The candle tables of a batch: no candle at all, or the entry candle
\* followed by none, a rising, a falling, or a flat and a rising candle.
BatchTables ==
    {{}}
    \cup {{Candle(FirstSlot, BasePrice, BasePrice + 1, BasePrice - 1)} \cup T :
            T \in {{},
                    {Candle(FirstSlot + 1, BasePrice, BasePrice + 1, BasePrice)},
                    {Candle(FirstSlot + 1, BasePrice, BasePrice, BasePrice - 1)},
                    {Candle(FirstSlot + 1, BasePrice, BasePrice, BasePrice),
                     Candle(FirstSlot + 2, BasePrice, BasePrice + 2, BasePrice)}}}

\* The list that forgets what it held when a call fails.
extend_or_clear(list, result) == IF result.isNone THEN <<>> ELSE list \o result.list

\* Lines 210-211: if result: all_results.extend(result)
extend(list, result) == IF result.isNone THEN list ELSE list \o result.list

\* Line 209: backtest_trade is called with the next entry of the list.
BatchCall ==
    /\ ~batch_ret.called
    /\ entry_index <= Len(entries)
    /\ CallWith({entries[entry_index]})

\* Lines 210-211: the call has returned; its outcomes, if any, are added.
BatchExtend ==
    /\ ~batch_ret.called
    /\ pc = "done"
    /\ all_results' = extend(all_results, ret)
    /\ returned' = Append(returned, [entry |-> entry_data, result |-> ret,
                                     handed |-> handed, stored |-> trading_entries])
    /\ entry_index' = entry_index + 1
    /\ Reset
    /\ UNCHANGED <<candle_M15, trading_entries, summary, drawdown, equity_data,
                   repository, entries, batch_ret, threading, ancillary>>

\* Lines 213-219: the loop is over; the summary is computed and returned.
BatchReturn ==
    /\ ~batch_ret.called
    /\ pc = "idle"
    /\ entry_index > Len(entries)
    /\ summary' = summarize_backtest_results(all_results)
    /\ batch_ret' = [called |-> TRUE, individual_results |-> all_results,
                     summary |-> summary']
    /\ UNCHANGED <<candle_M15, trading_entries, simulator, all_results, drawdown,
                   equity_data, repository, entries, entry_index, returned, threading,
                   ancillary>>

\* One call of batch_backtest with a list of at most MaxBatch entries.
InitBatch ==
    /\ candle_M15 \in BatchTables
    /\ trading_entries = {}
    /\ NoSimulation
    /\ NoAggregation
    /\ NoWriters
    /\ entries \in UNION {[1..n -> BatchEntries] : n \in 0..MaxBatch}
    /\ entry_index = 1
    /\ returned = <<>>
    /\ batch_ret = NotCalled
    /\ NoThreads
    /\ NoAncillary

NextBatch == BatchCall \/ Fetch \/ Scan \/ Exhausted \/ Return \/ BatchExtend \/ BatchReturn

SpecBatch == InitBatch /\ [][NextBatch]_vars

(* ------------------------- get_session_for_time ------------------------ *)
\* The hours at which a session begins.
SessionHours == {5, 15, 20}

\* Open times around the session boundaries and around midnight: the slot
\* that begins at each boundary and the slot before it.
SessionSlots ==
    {0, SlotsPerDay - 1}
    \cup {OClock(h) \div MinutesPerSlot - d : h \in SessionHours, d \in {0, 1}}

\* A candle at every such open time, moving one pip both ways.
SessionTable == {Candle(t, BasePrice, BasePrice + 1, BasePrice - 1) : t \in SessionSlots}

\* Entries opening at those times, with a grid of two pairs.
SessionEntries ==
    [day : {Text(0)}, OpenTime : {Text(t) : t \in SessionSlots}, position : {"Buy", "Sell"},
     stoploss_sizes : {<<1>>}, trade_ratios : {<<2, 1>>}, save_to_db : {"False"}]

\* A direct call of get_session_for_time with a clock time.
GetSession ==
    /\ pc = "idle"
    /\ \E time_obj \in 0..(MinutesPerDay - 1) :
          session_ret' = [called |-> TRUE, time_obj |-> time_obj,
                          session |-> get_session_for_time(time_obj)]
    /\ UNCHANGED <<candle_M15, trading_entries, simulator, aggregator, repository,
                   batch, threading, candle_ret, News, pips_ret, dialog>>

InitSessions ==
    /\ candle_M15 = SessionTable
    /\ trading_entries = {}
    /\ NoSimulation
    /\ NoAggregation
    /\ NoWriters
    /\ NoCallers

NextSessions == GetSession \/ CallWith(SessionEntries) \/ Fetch \/ Scan \/ Exhausted \/ Return

SpecSessions == InitSessions /\ [][NextSessions]_vars

(* ------------------ concurrent callers of backtest_trade --------------- *)
\* DEFAULT_CONFIG['trading']['stoploss_sizes'] and ['trade_ratios'], scaled
\* down; settings.json holds ConfigStoplossSizes and ConfigTradeRatios.
DefaultStoplossSizes == <<2>>
DefaultTradeRatios == <<1>>

\* Before setup_config: _CONFIG is None and the 'trading' dict is the one
\* of DEFAULT_CONFIG, which DEFAULT_CONFIG.copy() shares with _CONFIG.
NotSetUp ==
    [loaded |-> FALSE,
     trading |-> [stoploss_sizes |-> DefaultStoplossSizes,
                  trade_ratios |-> DefaultTradeRatios]]

\* Lines 110-182 for one pair: the scan of the candles from position n.
RECURSIVE scan(_, _, _, _, _, _, _)
scan(position, open, stoploss_size, ratio, start, candles, n) ==
    IF n > Len(candles) THEN InconclusiveEntry(stoploss_size, ratio, start)
    ELSE LET status == result_status(position, candles[n],
                           take_profit_price(position, open, stoploss_size, ratio),
                           stop_loss_price(position, open, stoploss_size))
         IN  IF status = ""
             THEN scan(position, open, stoploss_size, ratio, start, candles, n + 1)
             ELSE ResolvedEntry(stoploss_size, ratio, status, start, candles[n].time)

\* backtest_trade from line 56 on when no database call fails, with the
\* lists of lines 80-81 already read: None, or one outcome per pair, the
\* ratios varying fastest.  Saving an outcome changes no table: the INSERT
\* names 'duration_hours', which is no column.
simulate(table, e, sizes, ratios) ==
    LET start == combine_date_and_time(e.day, e.OpenTime)
        got == get_candle_at_time(table, format_datetime_for_db(start), "none")
        candles == get_subsequent_candles(table, format_datetime_for_db(start), "none").candles
    IN  IF start = NoneTime \/ ~got.found \/ e.position = "" THEN NoneRet
        ELSE ListRet([n \in 1..(Len(sizes) * Len(ratios)) |->
                        scan(e.position, got.candle.open,
                             sizes[((n - 1) \div Len(ratios)) + 1],
                             ratios[((n - 1) % Len(ratios)) + 1],
                             start, candles, 1)])

Threads == {1, 2}

\* The entries of the concurrent calls: with and without lists of their own.
ThreadEntries ==
    [day : {Text(0)}, OpenTime : {Text(SlotsPerDay - 1)}, position : {"Buy"},
     stoploss_sizes : {<<>>, <<1>>}, trade_ratios : {<<>>, <<1>>},
     save_to_db : {"False"}]

IdleThread ==
    [pc |-> "idle", entry |-> CHOOSE e \in ThreadEntries : TRUE,
     stoploss_sizes |-> <<>>, trade_ratios |-> <<>>, ret |-> NoneRet]

\* The frames after thread t changed the fields f of its own.
Stepped(t, f) == [threads EXCEPT ![t] = f @@ threads[t]]

ThreadFrame == UNCHANGED <<candle_M15, trading_entries, simulator, aggregator, repository,
                           batch, ancillary>>

\* Line 44 and config.py line 118: the call starts and tests _CONFIG.
ThreadGetConfig(t) ==
    /\ threads[t].pc = "idle"
    /\ \E e \in ThreadEntries :
          threads' = Stepped(t, [pc |-> IF CONFIG.loaded THEN "sizes" ELSE "setup",
                                 entry |-> e])
    /\ UNCHANGED CONFIG
    /\ ThreadFrame

\* config.py lines 81-90: settings.json is read and _CONFIG is bound to a
\* shallow copy of DEFAULT_CONFIG.
ThreadAssign(t) ==
    /\ threads[t].pc = "setup"
    /\ CONFIG' = [CONFIG EXCEPT !.loaded = TRUE]
    /\ threads' = Stepped(t, [pc |-> "merge_sizes"])
    /\ ThreadFrame

\* config.py lines 91, 147-152: _update_dict_recursive stores the values of
\* settings.json in the shared 'trading' dict, one key at a time.
ThreadMerge(t) ==
    /\ threads[t].pc \in {"merge_sizes", "merge_ratios"}
    /\ IF threads[t].pc = "merge_sizes"
       THEN /\ CONFIG' = [CONFIG EXCEPT !.trading.stoploss_sizes = ConfigStoplossSizes]
            /\ threads' = Stepped(t, [pc |-> "merge_ratios"])
       ELSE /\ CONFIG' = [CONFIG EXCEPT !.trading.trade_ratios = ConfigTradeRatios]
            /\ threads' = Stepped(t, [pc |-> "sizes"])
    /\ ThreadFrame

\* Lines 80-81, one statement at a time.
ThreadReadLists(t) ==
    /\ threads[t].pc \in {"sizes", "ratios"}
    /\ IF threads[t].pc = "sizes"
       THEN threads' = Stepped(t, [pc |-> "ratios",
                                   stoploss_sizes |-> OrConfig(threads[t].entry.stoploss_sizes,
                                                               CONFIG.trading.stoploss_sizes)])
       ELSE threads' = Stepped(t, [pc |-> "simulate",
                                   trade_ratios |-> OrConfig(threads[t].entry.trade_ratios,
                                                             CONFIG.trading.trade_ratios)])
    /\ UNCHANGED CONFIG
    /\ ThreadFrame

\* The rest of the call, which reads the candle store and the call's own
\* locals only.
ThreadSimulate(t) ==
    /\ threads[t].pc = "simulate"
    /\ threads' = Stepped(t, [pc |-> "done",
                              ret |-> simulate(candle_M15, threads[t].entry,
                                               threads[t].stoploss_sizes,
                                               threads[t].trade_ratios)])
    /\ UNCHANGED CONFIG
    /\ ThreadFrame

\* Two calls of backtest_trade from two threads, before or after the
\* configuration was set up.
InitThreads ==
    /\ candle_M15 \in BatchTables
    /\ trading_entries = {}
    /\ NoSimulation
    /\ NoAggregation
    /\ NoWriters
    /\ NoBatch
    /\ NoAncillary
    /\ CONFIG \in {SetUp, NotSetUp}
    /\ threads = [t \in Threads |-> IdleThread]

NextThreads ==
    \E t \in Threads :
        \/ ThreadGetConfig(t)
        \/ ThreadAssign(t)
        \/ ThreadMerge(t)
        \/ ThreadReadLists(t)
        \/ ThreadSimulate(t)

SpecThreads == InitThreads /\ [][NextThreads]_vars

(* --------------------------- insert_candle_data ------------------------ *)
\* chunk_size = 1000, scaled down.
ChunkSize == 2

\* A row of the DataFrame: a candle with its symbol.
SymbolCandle(symbol, t, h) == [symbol |-> symbol] @@ Candle(t, BasePrice, h, BasePrice)

\* The rows a DataFrame may hold: two candles of different values for one
\* (symbol, time), one for a later time, one for another symbol.
CandleRows ==
    {SymbolCandle("GBPUSD", FirstSlot, BasePrice + 1),
     SymbolCandle("GBPUSD", FirstSlot, BasePrice + 2),
     SymbolCandle("GBPUSD", FirstSlot + 1, BasePrice + 1),
     SymbolCandle("EURUSD", FirstSlot, BasePrice + 1)}

\* The DataFrames: up to one row more than a chunk holds.
CandleFrames == UNION {[1..n -> CandleRows] : n \in 0..(ChunkSize + 1)}

\* UNIQUE(symbol, time): the table has a row with the key of this row.
Conflicts(table, row) ==
    \E r \in table : r.symbol = row.symbol /\ r.time = row.time

\* INSERT OR REPLACE: a row of the same key is replaced.
RECURSIVE insert_or_replace(_, _)
insert_or_replace(table, rows) ==
    IF rows = <<>> THEN table
    ELSE insert_or_replace(
             {r \in table : ~(r.symbol = rows[1].symbol /\ r.time = rows[1].time)}
                 \cup {rows[1]},
             Tail(rows))

\* executemany of INSERT OR IGNORE: the rows one after the other, a row
\* whose key the table holds being skipped.
RECURSIVE insert_or_ignore(_, _)
insert_or_ignore(table, rows) ==
    IF rows = <<>> THEN table
    ELSE insert_or_ignore(IF Conflicts(table, rows[1]) THEN table ELSE table \cup {rows[1]},
                          Tail(rows))

\* range(0, len(data_tuples), chunk_size)
NumChunks(df) == (Len(df) + ChunkSize - 1) \div ChunkSize

\* The rows of the chunks before chunk number n.
ChunksBefore(df, n) ==
    SubSeq(df, 1, IF (n - 1) * ChunkSize < Len(df) THEN (n - 1) * ChunkSize ELSE Len(df))

\* insert_candle_data: every chunk is inserted and committed; when connect
\* raises nothing is written, when the statement of chunk number failing
\* raises the chunks before it stay committed; the exception is re-raised.
insert_candle_data(table, df, fault, failing) ==
    IF fault = "connect" THEN [raised |-> TRUE, table |-> table]
    ELSE IF fault = "execute"
    THEN [raised |-> TRUE, table |-> insert_or_ignore(table, ChunksBefore(df, failing))]
    ELSE [raised |-> FALSE, table |-> insert_or_ignore(table, df)]

\* One call of insert_candle_data.
InsertCandleData ==
    /\ \E df \in CandleFrames, fault \in Faults :
          \E failing \in IF fault = "execute" THEN 1..NumChunks(df) ELSE {0} :
              LET ins == insert_candle_data(candle_M15, df, fault, failing)
              IN  /\ candle_M15' = ins.table
                  /\ candle_ret' = [called |-> TRUE, df |-> df, before |-> candle_M15,
                                    raised |-> ins.raised]
    /\ UNCHANGED <<trading_entries, simulator, aggregator, repository, batch, threading,
                   News, pips_ret, dialog, session_ret>>

\* Calls of insert_candle_data on the table as init_db creates it.
InitCandles ==
    /\ candle_M15 = {}
    /\ trading_entries = {}
    /\ NoSimulation
    /\ NoAggregation
    /\ NoWriters
    /\ NoCallers

NextCandles == InsertCandleData

SpecCandles == InitCandles /\ [][NextCandles]_vars

(* ------------------------ calculate_pips_movement ---------------------- *)
\* timedelta(minutes=60), in slots.
HourSlots == 60 \div MinutesPerSlot

\* A column of News that is NULL, or holds the text of a number.
Unset == [set |-> FALSE, v |-> 0]
Value(v) == [set |-> TRUE, v |-> v]

\* A candle row with its close.
PipCandle(t, h, l, c) == [close |-> c] @@ Candle(t, BasePrice, h, l)

\* The time of the news event, and the candles a slot may hold around it.
NewsSlot == FirstSlot + 1

PipCandlesAt(t) ==
    IF t = FirstSlot - 1 THEN {PipCandle(t, BasePrice + 1, BasePrice, BasePrice + 1)}
    ELSE IF t = FirstSlot THEN {PipCandle(t, BasePrice, BasePrice, BasePrice)}
    ELSE IF t = NewsSlot THEN {PipCandle(t, BasePrice + 3, BasePrice - 3, BasePrice)}
    ELSE IF t = NewsSlot + 1
    THEN {PipCandle(t, BasePrice + 1, BasePrice, BasePrice),
          PipCandle(t, BasePrice, BasePrice - 1, BasePrice),
          PipCandle(t, BasePrice, BasePrice, BasePrice)}
    ELSE IF t = NewsSlot + HourSlots
    THEN {PipCandle(t, BasePrice + 2, BasePrice - 2, BasePrice)}
    ELSE {PipCandle(t, BasePrice + 3, BasePrice - 3, BasePrice)}

RECURSIVE PipTablesOver(_)
PipTablesOver(slots) ==
    IF slots = {} THEN {{}}
    ELSE LET t == CHOOSE x \in slots : TRUE
         IN  {T \cup X : T \in PipTablesOver(slots \ {t}),
                         X \in {{}} \cup {{c} : c \in PipCandlesAt(t)}}

PipTables ==
    PipTablesOver({FirstSlot - 1, FirstSlot, NewsSlot, NewsSlot + 1,
                   NewsSlot + HourSlots, NewsSlot + HourSlots + 1})

\* A row of News whose movement columns are NULL, or hold what an earlier
\* call stored.
NewsRow(id, t, stale) ==
    [id |-> id, time |-> format_datetime_for_db(t),
     close_before |-> IF stale THEN Value(BasePrice) ELSE Unset,
     high_after |-> Unset, low_after |-> Unset,
     Pips_Highest_Shadow |-> IF stale THEN Value(5) ELSE Unset,
     Pips_Lowest_Shadow |-> IF stale THEN Value(5) ELSE Unset]

NewsTables ==
    {{NewsRow(1, NewsSlot, stale), NewsRow(2, NewsSlot + 1, FALSE)} : stale \in BOOLEAN}

\* The records handed to calculate_pips_movement: rows of News, a record
\* for an id the table does not hold, and a record without 'id'.
Event(id, t) == [id |-> id, time |-> format_datetime_for_db(t)]

NewsEvents ==
    {<<>>, <<Event(1, NewsSlot)>>, <<Event(1, NewsSlot), Event(2, NewsSlot + 1)>>,
     <<Event(3, NewsSlot)>>, <<[time |-> format_datetime_for_db(NewsSlot)]>>,
     <<Event(1, NewsSlot), [time |-> format_datetime_for_db(NewsSlot)]>>}

\* WHERE time < event time
CandlesBefore(table, t) == {c \in table : TextLess(c.time, t)}

\* ORDER BY time DESC LIMIT 1
LatestBefore(table, t) ==
    CHOOSE c \in CandlesBefore(table, t) :
        \A d \in CandlesBefore(table, t) : TextLeq(d.time, c.time)

\* WHERE time > event time AND time <= event time + 60 minutes
CandlesAfter(table, t) ==
    {c \in table : /\ TextLess(t, c.time)
                   /\ TextLeq(c.time, format_datetime_for_db(strptime(t) + HourSlots))}

\* MAX(high) and MIN(low): NULL over no rows.
max_high(rows) ==
    IF rows = {} THEN Unset
    ELSE Value(CHOOSE h \in {c.high : c \in rows} : \A c \in rows : c.high <= h)

min_low(rows) ==
    IF rows = {} THEN Unset
    ELSE Value(CHOOSE l \in {c.low : c \in rows} : \A c \in rows : l <= c.low)

\* The excursion stored whenever the extreme is not on the wrong side.
shadow_pips_or_zero(extreme, close_before, sign) ==
    IF extreme.set /\ sign * (extreme.v - close_before) >= 0
    THEN Value((sign * (extreme.v - close_before)) \div ratiopips)
    ELSE Unset

\* Lines 673-677: the excursion in pips, sign being 1 for the high and -1
\* for the low, when the extreme lies on the favorable side of the close.
shadow_pips(extreme, close_before, sign) ==
    IF extreme.set /\ sign * (extreme.v - close_before) > 0
    THEN Value((sign * (extreme.v - close_before)) \div ratiopips)
    ELSE Unset

\* Lines 656-692: the UPDATE of the rows with the event's id.
UpdateNews(table, news, event) ==
    LET close_before == LatestBefore(table, event.time).close
        after == CandlesAfter(table, event.time)
    IN  {IF row.id = event.id
         THEN [row EXCEPT !.close_before = Value(close_before),
                          !.high_after = max_high(after),
                          !.low_after = min_low(after),
                          !.Pips_Highest_Shadow = shadow_pips(max_high(after), close_before, 1),
                          !.Pips_Lowest_Shadow = shadow_pips(min_low(after), close_before, -1)]
         ELSE row : row \in news}

\* Lines 637-692: the loop over the events.  An event with no candle
\* before it is passed over; event['id'] of a record without 'id' raises.
RECURSIVE PipsLoop(_, _, _)
PipsLoop(table, news, events) ==
    IF events = <<>> THEN [error |-> FALSE, news |-> news]
    ELSE IF CandlesBefore(table, events[1].time) = {}
    THEN PipsLoop(table, news, Tail(events))
    ELSE IF "id" \notin DOMAIN events[1] THEN [error |-> TRUE, news |-> news]
    ELSE PipsLoop(table, UpdateNews(table, news, events[1]), Tail(events))

\* calculate_pips_movement: the updates are committed together after the
\* loop; an exception is logged and nothing is committed.  When connect
\* raises, the handler's 'if conn:' reads an unbound local and the
\* exception leaves the function.
calculate_pips_movement(table, news, events, fault) ==
    IF fault = "connect" THEN [raised |-> TRUE, error |-> TRUE, news |-> news]
    ELSE IF fault = "execute" \/ PipsLoop(table, news, events).error
    THEN [raised |-> FALSE, error |-> TRUE, news |-> news]
    ELSE [raised |-> FALSE, error |-> FALSE, news |-> PipsLoop(table, news, events).news]

\* One call of calculate_pips_movement.
CalculatePipsMovement ==
    /\ ~pips_ret.called
    /\ \E news_events \in NewsEvents, fault \in Faults :
          LET got == calculate_pips_movement(candle_M15, News, news_events, fault)
          IN  /\ News' = got.news
              /\ pips_ret' = [called |-> TRUE, news_events |-> news_events, before |-> News,
                              raised |-> got.raised, error |-> got.error]
    /\ UNCHANGED <<candle_M15, trading_entries, simulator, aggregator, repository, batch,
                   threading, candle_ret, dialog, session_ret>>

InitPips ==
    /\ candle_M15 \in PipTables
    /\ trading_entries = {}
    /\ NoSimulation
    /\ NoAggregation
    /\ NoWriters
    /\ NoBatch
    /\ NoThreads
    /\ candle_ret = NotCalled
    /\ News \in NewsTables
    /\ pips_ret = NotCalled
    /\ dialog = NoDialog
    /\ session_ret = NotCalled

NextPips == CalculatePipsMovement

SpecPips == InitPips /\ [][NextPips]_vars

(* -------------------------- BacktestEntryDialog ------------------------ *)
\* _prepare_entry_data: the fields of the form, no lists of its own, and
\* "save_to_db": False.
DialogEntries ==
    [day : {Text(0)}, OpenTime : {Text(SlotsPerDay - 1)}, position : {"Buy", "Sell"},
     stoploss_sizes : {<<>>}, trade_ratios : {<<>>}, save_to_db : {"False"}]

\* The columns of the results list.
Shown(result) ==
    [StoplossSize |-> result.StoplossSize, TradeRatio |-> result.TradeRatio,
     Result |-> result.Result, duration_hours |-> result.duration_hours]

\* run_backtest: the inputs are valid and the thread calls backtest_trade.
RunBacktest ==
    /\ dialog.open
    /\ ~dialog.ran
    /\ CallWith(DialogEntries)

\* _run_backtest_thread: the call has returned, the results are kept.
BacktestThread ==
    /\ dialog.open
    /\ pc = "done"
    /\ dialog' = [dialog EXCEPT !.ran = TRUE, !.backtest_results = ret]
    /\ Reset
    /\ UNCHANGED <<candle_M15, trading_entries, aggregator, repository, batch, threading,
                   candle_ret, News, pips_ret, session_ret>>

\* _update_results_display: the list is cleared and filled.
UpdateResultsDisplay ==
    /\ dialog.open
    /\ dialog.ran
    /\ dialog' = [dialog EXCEPT !.shown =
                      [n \in 1..Len(dialog.backtest_results.list) |->
                          Shown(dialog.backtest_results.list[n])]]
    /\ UNCHANGED <<candle_M15, trading_entries, simulator, aggregator, repository, batch,
                   threading, candle_ret, News, pips_ret, session_ret>>

\* add_entry: without results an error is shown; otherwise the user is
\* asked, and on 'yes' success is reported and the dialog closed.
AddEntry ==
    /\ dialog.open
    /\ pc = "idle"
    /\ dialog.backtest_results.list # <<>>
    /\ \E askyesno \in BOOLEAN :
          dialog' = IF askyesno THEN [dialog EXCEPT !.success = TRUE, !.open = FALSE]
                    ELSE dialog
    /\ UNCHANGED <<candle_M15, trading_entries, simulator, aggregator, repository, batch,
                   threading, candle_ret, News, pips_ret, session_ret>>

\* The dialog is open on any candle table.
InitDialog ==
    /\ candle_M15 \in CandleTables
    /\ trading_entries = {}
    /\ NoSimulation
    /\ NoAggregation
    /\ NoWriters
    /\ NoBatch
    /\ NoThreads
    /\ candle_ret = NotCalled
    /\ News = {}
    /\ pips_ret = NotCalled
    /\ dialog = [NoDialog EXCEPT !.open = TRUE]
    /\ session_ret = NotCalled

NextDialog ==
    \/ RunBacktest
    \/ Fetch
    \/ Scan
    \/ Exhausted
    \/ Return
    \/ BacktestThread
    \/ UpdateResultsDisplay
    \/ AddEntry

SpecDialog == InitDialog /\ [][NextDialog]_vars

(* ------------------------- vocabulary of the claims -------------------- *)
TouchesTakeProfit(position, c, tp) ==
    IF position = "Buy" THEN c.high >= tp ELSE c.low <= tp

TouchesStopLoss(position, c, sl) ==
    IF position = "Buy" THEN c.low <= sl ELSE c.high >= sl

\* The price levels of the pair an outcome is labelled with.
TakeProfitOf(o) ==
    take_profit_price(entry_data.position, open_value, o.StoplossSize, o.TradeRatio[2])
StopLossOf(o) == stop_loss_price(entry_data.position, open_value, o.StoplossSize)

\* Candle c touches an exit level of outcome o.
Touches(o, c) ==
    \/ TouchesTakeProfit(entry_data.position, c, TakeProfitOf(o))
    \/ TouchesStopLoss(entry_data.position, c, StopLossOf(o))

TouchesBoth(o, c) ==
    /\ TouchesTakeProfit(entry_data.position, c, TakeProfitOf(o))
    /\ TouchesStopLoss(entry_data.position, c, StopLossOf(o))

\* n is the first position of the list cs whose candle touches a level of o.
FirstTouch(o, cs, n) ==
    /\ n \in 1..Len(cs)
    /\ Touches(o, cs[n])
    /\ \A m \in 1..(n - 1) : ~Touches(o, cs[m])

Resolved(o) == o.Result \in {"Winning", "Losing"}

\* The candles of the table after the entry's timestamp that touch a level
\* of o, and the earliest of them.
TouchingAfterEntry(o) ==
    {c \in candle_M15 : strptime(c.time) > start_datetime /\ Touches(o, c)}

Earliest(cs) == CHOOSE c \in cs : \A d \in cs : strptime(c.time) <= strptime(d.time)

(* ------------------------------- claims -------------------------------- *)
\* C1: when a call has ended and the first candle of the scanned list that
\* touches an exit level of a pair touches its take-profit and its stop-loss
\* level on the same bar, the outcome of the pair is 'Winning', for Buy and
\* for Sell.
C1_TieIsWinning ==
    pc = "done" =>
        \A p \in 1..Len(results) :
            \A n \in 1..Len(fetched[p].candles) :
                (/\ FirstTouch(results[p], fetched[p].candles, n)
                 /\ TouchesBoth(results[p], fetched[p].candles[n]))
                    => results[p].Result = "Winning"

\* A Sell entry whose first touching candle is the second of the list and
\* touches both levels of a pair with a stop-loss distance of one pip.
C1_Witness ==
    /\ pc = "done"
    /\ entry_data.position = "Sell"
    /\ \E p \in 1..Len(results) :
          /\ results[p].StoplossSize = 1
          /\ FirstTouch(results[p], fetched[p].candles, 2)
          /\ TouchesBoth(results[p], fetched[p].candles[2])
          /\ results[p].Result = "Winning"

\* C2: when a call has ended, a resolved outcome is decided by the earliest candle after the entry
\* that touches a level of its pair: its status is the status of that
\* candle alone, whatever the later candles are, and Closeday, CloseTime and
\* EndDatetime are that candle's timestamp.
C2_EarliestCandleDecides ==
    pc = "done" => \A p \in 1..Len(results) :
        Resolved(results[p]) =>
            /\ TouchingAfterEntry(results[p]) # {}
            /\ LET o == results[p]
                   c == Earliest(TouchingAfterEntry(o))
                   t == strptime(c.time)
               IN  /\ o.EndDatetime = c.time
                   /\ o.Closeday = t \div SlotsPerDay
                   /\ o.CloseTime = t % SlotsPerDay
                   /\ o.Result = IF TouchesTakeProfit(entry_data.position, c, TakeProfitOf(o))
                                 THEN "Winning" ELSE "Losing"
                   /\ o.duration_hours > 0

\* The first candle after the entry loses the trade and a later candle
\* would have won it.
C2_Witness ==
    pc = "done" /\ \E p \in 1..Len(results) :
        LET o == results[p]
        IN  /\ o.Result = "Losing"
            /\ o.StoplossSize = 1
            /\ FirstTouch(o, fetched[p].candles, 1)
            /\ \E c \in candle_M15 :
                  /\ TextLess(o.EndDatetime, c.time)
                  /\ TouchesTakeProfit(entry_data.position, c, TakeProfitOf(o))

\* The levels of the pair being scanned.
CurrentTakeProfit ==
    take_profit_price(entry_data.position, open_value, stoploss_sizes[i], trade_ratios[j])
CurrentStopLoss == stop_loss_price(entry_data.position, open_value, stoploss_sizes[i])

LevelsOrdered ==
    IF entry_data.position = "Buy"
    THEN CurrentTakeProfit > open_value /\ open_value > CurrentStopLoss
    ELSE CurrentStopLoss > open_value /\ open_value > CurrentTakeProfit

\* C3 as stated: for every pair that is simulated, whatever its stop-loss
\* size and ratio, takeProfit > open > stopLoss for Buy and
\* stopLoss > open > takeProfit for Sell.
C3_LevelsOrderedForAllInputs == pc = "scan" => LevelsOrdered

\* C3 amended: the ordering holds for every simulated pair whose stop-loss
\* size and ratio are positive (the pip scale being positive).
C3_LevelsOrderedForPositiveInputs ==
    (pc = "scan" /\ stoploss_sizes[i] > 0 /\ trade_ratios[j] > 0 /\ ratiopips > 0)
        => LevelsOrdered

\* A Sell pair of size 2 and ratio 2 is being scanned.
C3_Witness ==
    /\ pc = "scan"
    /\ entry_data.position = "Sell"
    /\ stoploss_sizes[i] = 2
    /\ trade_ratios[j] = 2
    /\ CurrentStopLoss = open_value + 2
    /\ CurrentTakeProfit = open_value - 4

\* The entry's timestamp is well formed and the table has no candle at it.
NoEntryCandle ==
    /\ pc # "idle"
    /\ entry_data.day.wf
    /\ entry_data.OpenTime.wf
    /\ ~(\E c \in candle_M15 :
            strptime(c.time) = entry_data.day.v * SlotsPerDay + entry_data.OpenTime.v)

\* C4: when the table has no M15 candle at the entry's timestamp the call
\* ends at once with None: the failure is logged, no outcome is produced,
\* no candle list is fetched and nothing is scanned or saved.
C4_NoPriceDataNoOutcomes ==
    NoEntryCandle =>
        /\ pc = "done"
        /\ ret = NoneRet
        /\ results = <<>>
        /\ fetched = <<>>
        /\ handed = <<>>
        /\ subsequent_candles = <<>>
        /\ (faults = 0 => (cause = "NoPriceData" /\ log = {"no_candle"}))

\* The table has later candles but none at the entry's timestamp.
C4_Witness ==
    /\ NoEntryCandle
    /\ candle_M15 # {}
    /\ entry_data.position = "Buy"
    /\ faults = 0
    /\ pc = "done"
    /\ ret = NoneRet

\* C5: when a call has ended, an outcome is 'Inconclusive' exactly when no candle of the list its
\* scan was given touches a level of its pair (which, when the fetch did
\* not fail, means no candle of the table after the entry does); an
\* Inconclusive outcome has duration 0 and 'N/A' as Closeday, CloseTime and
\* EndDatetime, and no Winning or Losing outcome has an 'N/A'.
C5_InconclusiveIffNoTouch ==
    pc = "done" => \A p \in 1..Len(results) :
        LET o == results[p]
            cs == fetched[p].candles
        IN  /\ o.Result \in {"Winning", "Losing", "Inconclusive"}
            /\ o.Result = "Inconclusive" <=> (\A n \in 1..Len(cs) : ~Touches(o, cs[n]))
            /\ fetched[p].fault = "none" =>
                  (o.Result = "Inconclusive" <=> TouchingAfterEntry(o) = {})
            /\ o.Result = "Inconclusive" =>
                  /\ o.duration_hours = 0
                  /\ o.Closeday = NA
                  /\ o.CloseTime = NA
                  /\ o.EndDatetime = NAText
            /\ Resolved(o) =>
                  /\ o.Closeday # NA
                  /\ o.CloseTime # NA
                  /\ o.EndDatetime # NAText

\* An Inconclusive outcome after candles that touch nothing, and another in
\* a call whose table has no candle after the entry.
C5_Witness ==
    /\ pc = "done"
    /\ faults = 0
    /\ \E p \in 1..Len(results) :
          /\ results[p].Result = "Inconclusive"
          /\ Len(fetched[p].candles) = NumSlots - 1

C5_WitnessNoCandles ==
    /\ pc = "done"
    /\ faults = 0
    /\ Len(results) > 0
    /\ \A p \in 1..Len(results) :
          /\ results[p].Result = "Inconclusive"
          /\ fetched[p].candles = <<>>

\* The lists the call iterates over: the entry's, or the configured one
\* when the entry's is empty.
SizesUsed ==
    IF entry_data.stoploss_sizes = <<>> THEN ConfigStoplossSizes
    ELSE entry_data.stoploss_sizes
RatiosUsed ==
    IF entry_data.trade_ratios = <<>> THEN ConfigTradeRatios
    ELSE entry_data.trade_ratios

\* C6: a call that returns a list returns one outcome per pair of the
\* product of the two lists, stop-loss outer and ratio inner, in the order
\* of the lists, each labelled with its StoplossSize and TradeRatio '1:N'.
C6_OneOutcomePerPair ==
    (pc = "done" /\ ~ret.isNone) =>
        /\ Len(ret.list) = Len(SizesUsed) * Len(RatiosUsed)
        /\ \A a \in 1..Len(SizesUsed) : \A b \in 1..Len(RatiosUsed) :
              LET o == ret.list[(a - 1) * Len(RatiosUsed) + b]
              IN  /\ o.StoplossSize = SizesUsed[a]
                  /\ o.TradeRatio = <<1, RatiosUsed[b]>>

\* A returned grid of two sizes by two ratios, neither list sorted.
C6_Witness ==
    /\ pc = "done"
    /\ ~ret.isNone
    /\ entry_data.stoploss_sizes = <<1, 0>>
    /\ entry_data.trade_ratios = <<2, 1>>
    /\ Len(ret.list) = 4

\* C7 as stated: when a fetch of the subsequent candles fails, the call
\* returns no list.
C7_FetchFailureAborts ==
    (pc = "done" /\ \E p \in 1..Len(fetched) : fetched[p].fault # "none") => ret.isNone

\* C8 as stated: two failed calls that failed for different reasons
\* return different values.
C8_ErrorKindsDistinguishable ==
    (pc = "done" /\ cause # "none" /\ lastFailure.cause \notin {"none", cause})
        => ret # lastFailure.ret

\* The outcome of a pair as the candle table alone determines it.
ExpectedOutcome(stoploss_size, ratio) ==
    LET label == [StoplossSize |-> stoploss_size, TradeRatio |-> <<1, ratio>>]
        touching == TouchingAfterEntry(label)
    IN  IF touching = {} THEN InconclusiveEntry(stoploss_size, ratio, start_datetime)
        ELSE ResolvedEntry(stoploss_size, ratio,
                 IF TouchesTakeProfit(entry_data.position, Earliest(touching),
                                      TakeProfitOf(label))
                 THEN "Winning" ELSE "Losing",
                 start_datetime, Earliest(touching).time)

\* The list a call returns when nothing is saved and no fetch fails.
ExpectedList ==
    [p \in 1..(Len(SizesUsed) * Len(RatiosUsed)) |->
        ExpectedOutcome(SizesUsed[((p - 1) \div Len(RatiosUsed)) + 1],
                        RatiosUsed[((p - 1) % Len(RatiosUsed)) + 1])]

\* Every database fault of the call so far hit insert_trading_entry.
OnlyPersistenceFaults ==
    /\ stoploss_sizes # <<>>
    /\ \A p \in 1..Len(fetched) : fetched[p].fault = "none"

\* C9 as stated: whatever happens to the inserts, a call with persistence
\* requested returns the list it returns with persistence disabled.
C9_PersistenceFailureHarmless ==
    (pc = "done" /\ SaveRequested(entry_data) /\ entry_data.position # ""
        /\ OnlyPersistenceFaults)
        => ret = ListRet(ExpectedList)

SameKey(a, b) == a.StoplossSize = b.StoplossSize /\ a.TradeRatio = b.TradeRatio

\* The later of two start texts and the earlier of two end texts.
LaterText(a, b) == IF TextLess(a, b) THEN b ELSE a
EarlierText(a, b) == IF TextLess(a, b) THEN a ELSE b

\* The windows of a and b share more than an endpoint.
WindowsOverlap(a, b) ==
    TextLess(LaterText(a.StartDatetime, b.StartDatetime),
             EarlierText(a.EndDatetime, b.EndDatetime))

\* The row or entry has a window, and one that runs forward.
Windowed(a) == a.StartDatetime # Null /\ a.EndDatetime # Null
RunsForward(a) == Windowed(a) /\ TextLess(a.StartDatetime, a.EndDatetime)

\* The last call returned without a database error.
Returned == insert_ret.called /\ ~insert_ret.raised /\ ~insert_ret.error

\* The entry of the last call with the values its row would hold.
Inserted == Row(insert_ret.entry)

\* The stored rows the entry of the last call overlaps.
OverlappedBefore ==
    {row \in insert_ret.before :
        /\ Windowed(row)
        /\ Windowed(Inserted)
        /\ SameKey(row, Inserted)
        /\ WindowsOverlap(row, Inserted)}

\* C11: after any sequence of sequential insert_trading_entry calls no two
\* stored rows with equal (StoplossSize, TradeRatio) have windows that share
\* more than an endpoint; a call whose entry overlaps a stored row returns
\* False with a stored row of the same labels and leaves the store as it
\* was; and among windows that run forward, an entry that overlaps no
\* stored row of its labels (touching at an endpoint included) is stored.
C11_NoOverlappingRows ==
    /\ \A r1, r2 \in trading_entries :
          (r1.id # r2.id /\ SameKey(r1, r2) /\ Windowed(r1) /\ Windowed(r2))
              => ~WindowsOverlap(r1, r2)
    /\ (Returned /\ OverlappedBefore # {}) =>
          /\ ~insert_ret.success
          /\ trading_entries = insert_ret.before
          /\ \E row \in insert_ret.before :
                insert_ret.existing_entry = {row} /\ SameKey(row, Inserted)
    /\ (/\ Returned
        /\ RunsForward(Inserted)
        /\ \A row \in insert_ret.before : SameKey(row, Inserted) => RunsForward(row)
        /\ OverlappedBefore = {}) =>
          /\ insert_ret.success
          /\ insert_ret.existing_entry = {}
          /\ trading_entries = insert_ret.before
                                \cup {StoredRow(insert_ret.before, insert_ret.entry)}

\* The store holds two rows of the same labels whose windows touch at an
\* endpoint, and the last call was refused because its entry overlaps one
\* of them.
C11_Witness ==
    /\ Returned
    /\ ~insert_ret.success
    /\ OverlappedBefore # {}
    /\ \E r1, r2 \in trading_entries :
          /\ SameKey(r1, r2)
          /\ RunsForward(r1)
          /\ RunsForward(r2)
          /\ r1.EndDatetime = r2.StartDatetime
          /\ SameKey(r1, Inserted)

\* Both callers have returned, and their entries carry the same labels and
\* windows that share more than an endpoint.
BothReturnedOverlapping ==
    /\ \A w \in Writers : writers[w].pc = "done"
    /\ HasWindow(writers[1].entry)
    /\ HasWindow(writers[2].entry)
    /\ SameKey(writers[1].entry, writers[2].entry)
    /\ WindowsOverlap(writers[1].entry, writers[2].entry)

\* C12 as stated: under every interleaving of two insert_trading_entry
\* calls whose entries share (StoplossSize, TradeRatio) and have
\* overlapping windows at most one call succeeds, and no two stored rows
\* of the same labels overlap.
C12_AtMostOneWriterSucceeds ==
    /\ BothReturnedOverlapping => ~(writers[1].success /\ writers[2].success)
    /\ \A r1, r2 \in trading_entries :
          (r1.id # r2.id /\ SameKey(r1, r2) /\ Windowed(r1) /\ Windowed(r2))
              => ~WindowsOverlap(r1, r2)

\* C13: summarize_backtest_results on an empty list does not fail and
\* returns zero for the total, the three counts, the win rate and the
\* average duration, and seven empty group maps.
C13_EmptyListGivesZeros ==
    (summary.called /\ all_results = <<>>) =>
        /\ ~summary.raised
        /\ summary.total_trades = 0
        /\ summary.winning_trades = 0
        /\ summary.losing_trades = 0
        /\ summary.inconclusive_trades = 0
        /\ summary.win_rate = Zero
        /\ summary.average_duration = Zero
        /\ \A group \in {summary.by_stoploss, summary.by_ratio, summary.by_session,
                          summary.by_h4, summary.by_h1, summary.by_m15,
                          summary.by_entry_point} : DOMAIN group = {}

\* The function has returned for the empty list.
C13_Witness == summary.called /\ all_results = <<>> /\ summary.total_trades = 0

\* C14: for every outcome list the three counts add up to total_trades,
\* which is the length of the list.
C14_CountsAddUp ==
    (summary.called /\ ~summary.raised) =>
        /\ summary.total_trades = Len(all_results)
        /\ summary.winning_trades + summary.losing_trades + summary.inconclusive_trades
              = summary.total_trades

\* A list with a Winning, a Losing and an Inconclusive outcome.
C14_Witness ==
    /\ summary.called
    /\ summary.winning_trades = 1
    /\ summary.losing_trades = 1
    /\ summary.inconclusive_trades = 1

\* The outcomes of the list with the given result.
Having(result) == {n \in 1..Len(all_results) : all_results[n].Result = result}

\* a / b <= c / d
QuotientLeq(a, b) == a.num * b.den <= b.num * a.den

\* C15: win_rate is winning / (winning + losing) * 100 when an outcome is
\* Winning or Losing and 0 otherwise; it is the win rate of the list
\* without its Inconclusive outcomes, and it lies between 0 and 100.
C15_WinRateOverDecided ==
    (summary.called /\ ~summary.raised) =>
        LET winning == Cardinality(Having("Winning"))
            losing == Cardinality(Having("Losing"))
            decided == SelectSeq(all_results, LAMBDA r : r.Result # "Inconclusive")
        IN  /\ winning + losing > 0 =>
                  /\ summary.win_rate.num * (winning + losing)
                        = 100 * winning * summary.win_rate.den
                  /\ summary.win_rate.den > 0
            /\ winning + losing = 0 => summary.win_rate = Zero
            /\ summary.win_rate = summarize_backtest_results(decided).win_rate
            /\ QuotientLeq(Zero, summary.win_rate)
            /\ QuotientLeq(summary.win_rate, Quotient(100, 1))

\* One Winning, one Losing and one Inconclusive outcome: the rate is 50.
C15_Witness ==
    /\ summary.called
    /\ Cardinality(Having("Inconclusive")) = 1
    /\ Cardinality(Having("Winning")) = 1
    /\ summary.win_rate = Quotient(50, 1)

\* The seven grouping dimensions: the key of the outcome and the map of
\* the summary.
Dimensions ==
    {<<"StoplossSize", "by_stoploss">>, <<"TradeRatio", "by_ratio">>,
     <<"session", "by_session">>, <<"H4", "by_h4">>, <<"H1", "by_h1">>,
     <<"M15", "by_m15">>, <<"EntryPoint", "by_entry_point">>}

\* The outcome has no value for the key, or an empty one.
NoValue(r, key) == key \notin DOMAIN r \/ (key \in Tags /\ r[key] = "")

\* The outcomes a dimension counts under a value: those that are not
\* Inconclusive and have that value.
CountedUnder(key, value) ==
    {n \in 1..Len(all_results) :
        /\ all_results[n].Result # "Inconclusive"
        /\ ~NoValue(all_results[n], key)
        /\ all_results[n][key] = value}

\* The values of a dimension that outcomes are counted under.
ValuesOf(key) ==
    {all_results[n][key] : n \in {m \in 1..Len(all_results) :
        all_results[m].Result # "Inconclusive" /\ ~NoValue(all_results[m], key)}}

\* The dimension's map has a group for each of its values and no other
\* group, and each group counts its outcomes and its Winning outcomes.
GroupsAsClaimed(dim) ==
    LET group == summary[dim[2]]
    IN  /\ DOMAIN group = ValuesOf(dim[1])
        /\ \A value \in ValuesOf(dim[1]) :
              /\ group[value].total = Cardinality(CountedUnder(dim[1], value))
              /\ group[value].wins =
                    Cardinality(CountedUnder(dim[1], value) \cap Having("Winning"))

\* C16 as stated: in each of the seven dimensions no Inconclusive outcome
\* is counted, and an outcome without a value for the dimension, or with an
\* empty one, is left out of that dimension's map (no key None or '') and
\* counted in the others.
C16_NoGroupForMissingValue ==
    (summary.called /\ ~summary.raised) => \A dim \in Dimensions : GroupsAsClaimed(dim)

\* The outcomes of a list that are not Inconclusive, in the list's order.
Decided(outcomes) == SelectSeq(outcomes, LAMBDA r : r.Result # "Inconclusive")

\* The sum of the ratios N of the labels '1:N' of the outcomes at the
\* positions S of the list.
RECURSIVE SumOfRatios(_)
SumOfRatios(S) ==
    IF S = {} THEN 0
    ELSE LET n == CHOOSE x \in S : TRUE
         IN  all_results[n].TradeRatio[2] + SumOfRatios(S \ {n})

\* 100 + 2 * (sum of the ratios of the Winning outcomes) - 2 * (number of
\* Losing outcomes)
ExpectedFinalBalance ==
    100 + 2 * SumOfRatios(Having("Winning")) - 2 * Cardinality(Having("Losing"))

\* C17: generate_equity_curve returns one point per outcome that is not
\* Inconclusive, and the balance of the last point and final_balance of
\* calculate_drawdown are 100 + 2 * (sum of the ratios of the Winning
\* outcomes) - 2 * (number of Losing outcomes).
C17_FinalBalance ==
    /\ equity_data.called =>
          /\ Len(equity_data.rows) = Len(all_results) - Cardinality(Having("Inconclusive"))
          /\ equity_data.rows # <<>> =>
                equity_data.rows[Len(equity_data.rows)].balance = ExpectedFinalBalance
    /\ drawdown.called => drawdown.final_balance = ExpectedFinalBalance

\* Both functions have run on a list with a win of ratio 1, a win of ratio
\* 2, a loss and an Inconclusive outcome: three points, balance 104.
C17_Witness ==
    /\ equity_data.called
    /\ drawdown.called
    /\ Cardinality(Having("Inconclusive")) = 1
    /\ Cardinality(Having("Losing")) = 1
    /\ SumOfRatios(Having("Winning")) = 3
    /\ Len(equity_data.rows) = 3
    /\ drawdown.final_balance = 104

\* The list is in ascending order of StartDatetime.
Ascending(outcomes) ==
    \A a, b \in 1..Len(outcomes) :
        a < b => TextLeq(outcomes[a].StartDatetime, outcomes[b].StartDatetime)

\* Two lists hold the same outcomes the same number of times.
SameOutcomes(l1, l2) ==
    /\ Len(l1) = Len(l2)
    /\ \A x \in Trades :
          Cardinality({n \in 1..Len(l1) : l1[n] = x})
              = Cardinality({n \in 1..Len(l2) : l2[n] = x})

\* The figures a call of calculate_drawdown returned.
Figures(d) ==
    <<d.max_drawdown_percent, d.max_drawdown_start, d.max_drawdown_end,
      d.final_balance, d.peak_balance, d.drawdown_periods>>

\* C18: both functions process the outcomes of the list in ascending
\* order of StartDatetime whatever the order of the list, and what they
\* return is what they return for the list without its Inconclusive
\* outcomes.
C18_SortedAndInconclusiveSkipped ==
    /\ drawdown.called =>
          /\ Ascending(drawdown.sorted_results)
          /\ SameOutcomes(drawdown.sorted_results, all_results)
          /\ Figures(drawdown) = Figures(calculate_drawdown(Decided(all_results)))
    /\ equity_data.called =>
          /\ Ascending(equity_data.sorted_results)
          /\ SameOutcomes(equity_data.sorted_results, all_results)
          /\ equity_data.rows = generate_equity_curve(Decided(all_results)).rows

\* Both functions have run on a list that is not in ascending order and
\* has an Inconclusive outcome between two others.
C18_Witness ==
    /\ drawdown.called
    /\ equity_data.called
    /\ ~Ascending(all_results)
    /\ \E a, b, c \in 1..Len(all_results) :
          /\ a < b
          /\ b < c
          /\ all_results[a].Result = "Losing"
          /\ all_results[b].Result = "Inconclusive"
          /\ all_results[c].Result = "Winning"

\* The trades calculate_drawdown processed, in the order it processed them.
Processed == Decided(drawdown.sorted_results)

\* The balance after the first n trades, and the highest balance up to
\* then.
RECURSIVE BalanceAfter(_)
BalanceAfter(n) ==
    IF n = 0 THEN 100
    ELSE BalanceAfter(n - 1)
         + (IF Processed[n].Result = "Winning" THEN 2 * Processed[n].TradeRatio[2] ELSE -2)

PeakAfter(n) ==
    CHOOSE b \in {BalanceAfter(m) : m \in 0..n} :
        \A m \in 0..n : BalanceAfter(m) <= b

\* The trades that take the balance from below the peak to a new peak.
Recoveries ==
    {n \in 1..Len(Processed) :
        /\ BalanceAfter(n - 1) < PeakAfter(n - 1)
        /\ BalanceAfter(n) > PeakAfter(n - 1)}

\* The trade that took the balance below the peak before recovery n: the
\* first after the balance was last at its peak.
OpenedBy(n) ==
    1 + CHOOSE q \in 0..(n - 1) :
            /\ BalanceAfter(q) = PeakAfter(q)
            /\ \A m \in (q + 1)..(n - 1) : BalanceAfter(m) < PeakAfter(m)

\* The p-th recovery.
Recovery(p) == CHOOSE n \in Recoveries : Cardinality({m \in Recoveries : m < n}) = p - 1

\* C19 as stated: every excursion of the balance below the peak that ends
\* with a new peak is recorded once in drawdown_periods, with the start
\* time of the trade that opened it as 'start', never None, and the end
\* time of the trade that set the new peak as 'end'.
C19_EveryRecoveryRecorded ==
    drawdown.called =>
        /\ Len(drawdown.drawdown_periods) = Cardinality(Recoveries)
        /\ \A p \in 1..Len(drawdown.drawdown_periods) :
              /\ drawdown.drawdown_periods[p].start # NoneStamp
              /\ drawdown.drawdown_periods[p].start
                    = Processed[OpenedBy(Recovery(p))].StartDatetime
              /\ drawdown.drawdown_periods[p].end = Processed[Recovery(p)].EndDatetime

\* The drawdown after the first n trades.
DrawdownAfter(n) == Quotient((PeakAfter(n) - BalanceAfter(n)) * 100, PeakAfter(n))

\* C20: peak_balance is the highest of 100 and the balances after each
\* processed trade, and max_drawdown_percent the highest of the drawdowns
\* (peak - balance) / peak * 100 after each processed trade, 0 when the
\* balance never falls below the peak.
C20_PeakAndMaxDrawdown ==
    drawdown.called =>
        /\ drawdown.peak_balance = PeakAfter(Len(Processed))
        /\ drawdown.max_drawdown_percent \in {DrawdownAfter(n) : n \in 0..Len(Processed)}
        /\ \A n \in 0..Len(Processed) :
              ~QuotientLess(drawdown.max_drawdown_percent, DrawdownAfter(n))

\* A win of ratio 2 followed by two losses: the peak is 104 and the
\* deepest drawdown is 4 / 104 of it.
C20_Witness ==
    /\ drawdown.called
    /\ drawdown.peak_balance = 104
    /\ drawdown.final_balance = 100
    /\ drawdown.max_drawdown_percent = Quotient(400, 104)

\* The first trade after which the drawdown is the deepest of the sequence.
Deepest ==
    CHOOSE n \in 1..Len(Processed) :
        /\ \A m \in 1..Len(Processed) : ~QuotientLess(DrawdownAfter(n), DrawdownAfter(m))
        /\ \A m \in 1..(n - 1) : QuotientLess(DrawdownAfter(m), DrawdownAfter(n))

\* C21 as stated: when max_drawdown_percent is positive, max_drawdown_start
\* and max_drawdown_end are both set, the first to the start time of the
\* trade that opened the drawdown in which the maximum was attained, the
\* second to the end time of the trade at which it was attained; a later
\* recovery or smaller drawdown does not clear or replace them.
C21_MaxDrawdownTimestampsKept ==
    (drawdown.called /\ QuotientLess(Zero, drawdown.max_drawdown_percent)) =>
        /\ drawdown.max_drawdown_start # NoneStamp
        /\ drawdown.max_drawdown_end # NoneStamp
        /\ drawdown.max_drawdown_start = Processed[OpenedBy(Deepest)].StartDatetime
        /\ drawdown.max_drawdown_end = Processed[Deepest].EndDatetime

\* The lists that hold the outcomes of a list in some order.
Permuted(outcomes) ==
    {[n \in 1..Len(outcomes) |-> outcomes[p[n]]] :
        p \in {f \in [1..Len(outcomes) -> 1..Len(outcomes)] :
                  \A a, b \in 1..Len(outcomes) : f[a] = f[b] => a = b}}

\* C22 as stated: calculate_drawdown and generate_equity_curve return the
\* same for every list that holds the same outcomes in another order,
\* outcomes of equal StartDatetime included.
C22_OrderOfListIrrelevant ==
    /\ drawdown.called =>
          \A other \in Permuted(all_results) :
              Figures(calculate_drawdown(other)) = Figures(drawdown)
    /\ equity_data.called =>
          \A other \in Permuted(all_results) :
              generate_equity_curve(other).rows = equity_data.rows

\* The outcome lists of the calls that returned one, one after the other.
RECURSIVE Concatenated(_)
Concatenated(calls) ==
    IF calls = <<>> THEN <<>>
    ELSE (IF calls[1].result.isNone THEN <<>> ELSE calls[1].result.list)
         \o Concatenated(Tail(calls))

\* C23: batch_backtest calls backtest_trade once for every entry of the
\* list, in order, whether earlier calls failed or not; individual_results
\* is the concatenation, in that order, of the lists the calls returned,
\* and summary is summarize_backtest_results of that list, so that
\* total_trades is its length.
C23_BatchConcatenatesAndSummarizes ==
    batch_ret.called =>
        /\ Len(returned) = Len(entries)
        /\ \A n \in 1..Len(entries) : returned[n].entry = entries[n]
        /\ batch_ret.individual_results = Concatenated(returned)
        /\ batch_ret.summary = summarize_backtest_results(Concatenated(returned))
        /\ batch_ret.summary.total_trades = Len(batch_ret.individual_results)

\* A batch of two entries whose first call fails and whose second call
\* returns two outcomes.
C23_Witness ==
    /\ batch_ret.called
    /\ Len(returned) = 2
    /\ returned[1].result.isNone
    /\ ~returned[2].result.isNone
    /\ Len(batch_ret.individual_results) = 2
    /\ batch_ret.summary.total_trades = 2

\* The candles of the table with a timestamp after the entry's.
AfterEntry == {c \in candle_M15 : strptime(c.time) > start_datetime}

\* C24: the list a scan is given holds the candles of the table with a
\* timestamp strictly after the entry's, all of them however late, in
\* ascending order of time; a Winning or Losing outcome ends strictly
\* later than it starts, and an outcome is Inconclusive only if no candle
\* after the entry, however late, touches a level of its pair.
C24_OnlyLaterCandlesAllOfThem ==
    /\ \A p \in 1..Len(fetched) :
          fetched[p].fault = "none" =>
              LET cs == fetched[p].candles
              IN  /\ \A n \in 1..Len(cs) : strptime(cs[n].time) > start_datetime
                  /\ \A a, b \in 1..Len(cs) :
                        a < b => strptime(cs[a].time) < strptime(cs[b].time)
                  /\ {cs[n] : n \in 1..Len(cs)} = AfterEntry
    /\ \A p \in 1..Len(results) :
          /\ Resolved(results[p]) =>
                /\ TextLess(results[p].StartDatetime, results[p].EndDatetime)
                /\ strptime(results[p].EndDatetime) > start_datetime
          /\ (fetched[p].fault = "none" /\ results[p].Result = "Inconclusive") =>
                TouchingAfterEntry(results[p]) = {}

\* The entry candle touches both levels of the pair, the candles after it
\* touch none until the last slot of the window, whose candle resolves the
\* trade.
C24_Witness ==
    /\ pc = "done"
    /\ Len(results) = 1
    /\ Len(fetched[1].candles) = NumSlots - 1
    /\ \E c \in candle_M15 : strptime(c.time) = start_datetime /\ TouchesBoth(results[1], c)
    /\ FirstTouch(results[1], fetched[1].candles, NumSlots - 1)
    /\ results[1].EndDatetime = format_datetime_for_db(FirstSlot + NumSlots - 1)
    /\ Resolved(results[1])

\* What a call with entry e returns when it runs alone: the configuration
\* is set up, if it was not, before the lists are read.
Alone(e) ==
    simulate(candle_M15, e, OrConfig(e.stoploss_sizes, ConfigStoplossSizes),
             OrConfig(e.trade_ratios, ConfigTradeRatios))

\* C25 as stated: under every interleaving of two calls on the same candle
\* store, each call returns the outcome list it returns when run alone.
C25_ConcurrentCallsAsAlone ==
    \A t \in DOMAIN threads :
        threads[t].pc = "done" => threads[t].ret = Alone(threads[t].entry)

\* C26: after any sequence of insert_candle_data calls the table holds at
\* most one row per (symbol, time), and every row the table held before a
\* call is in it, unchanged, after the call, whatever the call inserts.
C26_CandlesUniqueAndImmutable ==
    /\ \A a, b \in candle_M15 : (a.symbol = b.symbol /\ a.time = b.time) => a = b
    /\ candle_ret.called => candle_ret.before \subseteq candle_M15

\* A call whose DataFrame has a row with the key of a stored row and
\* other values, and a row with a new key, which is stored.
C26_Witness ==
    /\ candle_ret.called
    /\ ~candle_ret.raised
    /\ \E n \in 1..Len(candle_ret.df) :
          /\ Conflicts(candle_ret.before, candle_ret.df[n])
          /\ candle_ret.df[n] \notin candle_ret.before
          /\ candle_ret.df[n] \notin candle_M15
    /\ \E n \in 1..Len(candle_ret.df) :
          /\ ~Conflicts(candle_ret.before, candle_ret.df[n])
          /\ candle_ret.df[n] \in candle_M15

\* The candles strictly before the time t, and those in the hour after it.
StrictlyBefore(t) == {c \in candle_M15 : strptime(c.time) < strptime(t)}
InHourAfter(t) ==
    {c \in candle_M15 : /\ strptime(t) < strptime(c.time)
                        /\ strptime(c.time) <= strptime(t) + HourSlots}

\* The close of the latest candle strictly before t.
CloseBefore(t) ==
    (CHOOSE c \in StrictlyBefore(t) :
        \A d \in StrictlyBefore(t) : strptime(d.time) <= strptime(c.time)).close

\* The events of the call that have an id and a candle before them.
EventsOfCall ==
    {pips_ret.news_events[n] : n \in 1..Len(pips_ret.news_events)}

Updated ==
    {ev \in EventsOfCall : "id" \in DOMAIN ev /\ StrictlyBefore(ev.time) # {}}

C28_ShownOutcomesStored ==
    dialog.success =>
        \A n \in 1..Len(dialog.shown) :
            dialog.shown[n].Result \in {"Winning", "Losing"} =>
                \E row \in trading_entries :
                    /\ row.StoplossSize = dialog.shown[n].StoplossSize
                    /\ row.TradeRatio = dialog.shown[n].TradeRatio
                    /\ row.Result = dialog.shown[n].Result

\* The rows of trading_entries when the n-th call of the batch began.
StoredBefore(n) == IF n = 1 THEN {} ELSE returned[n - 1].stored

\* C29: a call of backtest_trade that returns None, whether it failed
\* before the grid or part-way through it, has added no row to
\* trading_entries.
C29_NoRowsWithoutOutcomes ==
    /\ \A n \in 1..Len(returned) :
          returned[n].result.isNone => returned[n].stored = StoredBefore(n)
    /\ (pc = "done" /\ ret.isNone) => trading_entries = StoredBefore(Len(returned) + 1)

\* A call that handed the outcome of its first pair to
\* insert_trading_entry and then failed on the second pair.
C29_Witness ==
    \E n \in 1..Len(returned) :
        /\ returned[n].result.isNone
        /\ Len(returned[n].handed) = 1
        /\ Len(returned[n].entry.trade_ratios) = 2
        /\ returned[n].stored = StoredBefore(n)

\* The session the three windows of the day give a clock time, in minutes.
Within(m, from, to) == from * 60 <= m /\ m < to * 60
InLondon(m) == Within(m, 15, 20)
InTokyo(m) == Within(m, 5, 15)
InNewYork(m) == Within(m, 20, 24) \/ Within(m, 0, 5)
WindowOf(m) ==
    IF InLondon(m) THEN "London" ELSE IF InTokyo(m) THEN "Tokyo" ELSE "New York"

\* C30: get_session_for_time puts every clock time in exactly one of
\* London (15:00-20:00), Tokyo (05:00-15:00) and New York (the rest of the
\* day), never answers 'Unknown', and every outcome of an entry carries
\* the session of the entry's open time.
C30_SessionsPartitionTheDay ==
    /\ session_ret.called =>
          LET m == session_ret.time_obj
          IN  /\ Cardinality({w \in {"London", "Tokyo", "New York"} :
                      \/ w = "London" /\ InLondon(m)
                      \/ w = "Tokyo" /\ InTokyo(m)
                      \/ w = "New York" /\ InNewYork(m)}) = 1
              /\ session_ret.session = WindowOf(m)
              /\ session_ret.session # "Unknown"
    /\ (pc = "done" /\ ~ret.isNone) =>
          \A n \in 1..Len(ret.list) :
              ret.list[n].session = WindowOf(entry_data.OpenTime.v * MinutesPerSlot)

\* The last minute before 05:00 was classified, and a call for an entry
\* opening at 14:45 has returned its two outcomes.
C30_Witness ==
    /\ session_ret.called
    /\ session_ret.time_obj = 5 * 60 - 1
    /\ session_ret.session = "New York"
    /\ pc = "done"
    /\ ~ret.isNone
    /\ Len(ret.list) = 2
    /\ ret.list[1].session = "Tokyo"
    /\ entry_data.OpenTime.v * MinutesPerSlot = 15 * 60 - MinutesPerSlot

====
